---------------------------- MODULE Spec2Model ----------------------------
(***************************************************************************)
(* A model of the cumulative-sum EMD engine of gridrdf                     *)
(* (src/src/gridrdf/earth_mover_distance.py): the pairwise kernel          *)
(* _EMD_cumsum, the row kernel _emd_cumsum_row and the matrix builder      *)
(* super_fast_EMD_matrix.                                                  *)
(*                                                                         *)
(* Conventions.  Python indices start at 0, TLA+ sequences at 1: index k   *)
(* of the model is index k-1 of the code.  A float is modelled as an       *)
(* extended rational <<n, d>> in lowest terms with d >= 0; d = 0 gives     *)
(* the IEEE specials: <<1,0>> is +inf, <<-1,0>> is -inf, <<0,0>> is NaN.   *)
(* A histogram is a sequence of integers (its bin contents), a GRID is a   *)
(* sequence of shells (histograms) and a batch is a sequence of GRIDs.     *)
(***************************************************************************)
EXTENDS Integers, Sequences, FiniteSets, TLC

(***************************************************************************)
(* Bounds of the model.                                                    *)
(***************************************************************************)
\* largest number of GRIDs in a batch given to super_fast_EMD_matrix
MaxN == 3
\* largest number of shells of a GRID
MaxShells == 2
\* largest number of bins of a shell in a batch
MaxBins == 2
\* largest content of one histogram bin
MaxVal == 1
\* largest exponent n of the 'power' weighting
MaxPow == 1
\* largest number of cells (shells x bins) of a GRID given to _EMD_cumsum
MaxPairCells == 4
\* largest total mass of a shell of a GRID given to _EMD_cumsum
MaxMass == 2
\* largest number of passes of the while loop of find_same_rdf followed
MaxPasses == 4

(***************************************************************************)
(* Float arithmetic on extended rationals.                                 *)
(***************************************************************************)
Abs(x) == IF x < 0 THEN -x ELSE x

Sign(x) == IF x < 0 THEN -1 ELSE IF x > 0 THEN 1 ELSE 0

RECURSIVE GCD(_, _)
GCD(a, b) == IF b = 0 THEN a ELSE GCD(b, a % b)

\* the float n/d: lowest terms, positive denominator; x/0 is an infinity
\* and 0/0 is NaN
Norm(n, d) ==
    IF d = 0 THEN <<Sign(n), 0>>
    ELSE LET g == GCD(Abs(n), Abs(d))
         IN  <<(Sign(d) * n) \div g, Abs(d) \div g>>

F(n) == <<n, 1>>

NaN == <<0, 0>>

IsNaN(a) == a = NaN

IsInf(a) == a[2] = 0 /\ a[1] # 0

IsFinite(a) == a[2] # 0

FMul(a, b) == Norm(a[1] * b[1], a[2] * b[2])

FDiv(a, b) == Norm(a[1] * b[2], a[2] * b[1])

FAdd(a, b) ==
    IF IsInf(a) /\ IsInf(b)
    THEN (IF a = b THEN a ELSE NaN)
    ELSE Norm(a[1] * b[2] + b[1] * a[2], a[2] * b[2])

\* Python's ==  on two floats: NaN equals nothing, not even itself
FEq(a, b) == ~IsNaN(a) /\ ~IsNaN(b) /\ a = b

FNeg(a) == <<-a[1], a[2]>>

FSub(a, b) == FAdd(a, FNeg(b))

FAbs(a) == <<Abs(a[1]), a[2]>>

\* a < b on two finite floats
FLess(a, b) == a[1] * b[2] < b[1] * a[2]

\* s[1] + .. + s[k] on floats
RECURSIVE FSumTo(_, _)
FSumTo(s, k) == IF k = 0 THEN F(0) ELSE FAdd(FSumTo(s, k - 1), s[k])

\* np.sum of a 1-D float array
FSumSeq(s) == FSumTo(s, Len(s))

\* mutant: the sum in place of the mean
FSumForMean(s) == FSumSeq(s)

\* np.mean of a 1-D float array
FMean(s) == FDiv(FSumSeq(s), F(Len(s)))

\* np.isclose(a, b) with its defaults rtol = 1e-5, atol = 1e-8, on integers:
\* |a - b| <= atol + rtol * |b|, both sides scaled by 1e8
IsClose(a, b) == Abs(a - b) * 100000000 <= 1 + 1000 * Abs(b)

\* np.isclose(a, b) with its defaults on two finite floats:
\* |a - b| <= 1e-8 + 1e-5 * |b|, both sides scaled by 1e8 * a[2] * b[2]
FIsClose(a, b) ==
    Abs(a[1] * b[2] - b[1] * a[2]) * 100000000 <= a[2] * (b[2] + 1000 * Abs(b[1]))

(***************************************************************************)
(* Arrays.                                                                 *)
(***************************************************************************)
\* s[1] + .. + s[k]
RECURSIVE SumTo(_, _)
SumTo(s, k) == IF k = 0 THEN 0 ELSE SumTo(s, k - 1) + s[k]

\* np.sum of a 1-D integer array
SumSeq(s) == SumTo(s, Len(s))

\* g.shape of a 2-D array
Shape(g) == <<Len(g), Len(g[1])>>

\* np.cumsum(h) of one histogram
CumSum(h) == [k \in 1..Len(h) |-> SumTo(h, k)]

\* np.cumsum(grid, axis=-1) of one GRID
CumSumGrid(g) == [s \in 1..Len(g) |-> CumSum(g[s])]

\* mutant: the absolute value is left out
SumDiff(x, y) == SumSeq([k \in 1..Len(x) |-> x[k] - y[k]])

\* np.sum(np.abs(x - y)) of two 1-D integer arrays
SumAbsDiff(x, y) == SumSeq([k \in 1..Len(x) |-> Abs(x[k] - y[k])])

\* the largest of s[1..k]
RECURSIVE MaxTo(_, _)
MaxTo(s, k) ==
    IF k = 1 THEN s[1]
    ELSE LET m == MaxTo(s, k - 1) IN IF s[k] > m THEN s[k] ELSE m

\* np.max of a 1-D array
SeqMax(h) == MaxTo(h, Len(h))

\* np.max of a 2-D array: the largest entry of all shells
GridMax(g) == SeqMax([s \in 1..Len(g) |-> SeqMax(g[s])])

Zeros(r, c) == [a \in 1..r |-> [b \in 1..c |-> F(0)]]

Filled(r, c, v) == [a \in 1..r |-> [b \in 1..c |-> F(v)]]

(***************************************************************************)
(* The kernels.                                                            *)
(***************************************************************************)
\* the value of an optional argument that was not passed
PyNone == <<>>

\* np.ones(n)
Ones(n) == [s \in 1..n |-> F(1)]

\* mutant: the bin width is left out of the product
ShellTermNoWidth(g1, g2, s, w, bin_width) ==
    FDiv(FMul(w[s], F(SumAbsDiff(g1[s], g2[s]))), F(GridMax(g1)))

\* one element of the array expression  weights * np.sum(np.abs(g1 - g2),
\* axis=-1) / np.max(g1) * bin_width:  the term of shell s.  The divisor is
\* np.max of the whole first GRID, not of shell s.
ShellTerm(g1, g2, s, w, bin_width) ==
    FMul(FDiv(FMul(w[s], F(SumAbsDiff(g1[s], g2[s]))), F(GridMax(g1))), bin_width)

\* _EMD_cumsum(cumulative_grid1, cumulative_grid2, bin_width, weights)
EMD_cumsum(g1, g2, bin_width, w) ==
    LET wts == IF w = PyNone THEN Ones(Len(g1)) ELSE w
    IN  FMean([s \in 1..Len(g1) |-> ShellTerm(g1, g2, s, wts, bin_width)])

\* mutant: the loop runs over every structure, not only index..N
RowColumnsAll(index, n) == 1..n

\* the iterations of the parallel loop of _emd_cumsum_row:
\* nb.prange(index, cumsum_grid_array.shape[0])
RowColumns(index, n) == index..n

\* the value _emd_cumsum_row stores in output[j]
RowEntry(cs, index, j, bin_width, shell_weights) ==
    FMean([s \in 1..Len(cs[index]) |->
              ShellTerm(cs[index], cs[j], s, shell_weights, bin_width)])

\* _emd_cumsum_row(cumsum_grid_array, index, bin_width, weights): the row
\* starts as np.zeros and the loop fills the entries index..N
emd_cumsum_row(cs, index, bin_width, w) ==
    LET shell_weights == IF w = PyNone THEN Ones(Len(cs[index]))
                         ELSE [s \in 1..Len(cs[index]) |-> FMul(F(1), w[s])]
    IN  [j \in 1..Len(cs) |->
            IF j \in RowColumns(index, Len(cs))
            THEN RowEntry(cs, index, j, bin_width, shell_weights)
            ELSE F(0)]

(***************************************************************************)
(* The weightings of super_fast_EMD_matrix.                                *)
(***************************************************************************)
RECURSIVE IPow(_, _)
IPow(x, k) == IF k = 0 THEN 1 ELSE x * IPow(x, k - 1)

\* np.power(np.arange(1, nshells + 1), -n), n a float with an integer value
PowerSeries(nshells, n) ==
    [s \in 1..nshells |-> IF n >= 0 THEN Norm(1, IPow(s, n)) ELSE F(IPow(s, -n))]

\* weighting == "constant"
ConstantWeights(nshells) == Ones(nshells)

\* mutant: the power series is normalised to sum to 1
PowerWeightsToOne(nshells, n) ==
    LET power_series == PowerSeries(nshells, n)
        total == FSumSeq(power_series)
    IN  [s \in 1..nshells |-> FDiv(power_series[s], total)]

\* weighting == "power": power_series * nshells / power_series.sum()
PowerWeights(nshells, n) ==
    LET power_series == PowerSeries(nshells, n)
        total == FSumSeq(power_series)
    IN  [s \in 1..nshells |-> FDiv(FMul(power_series[s], F(nshells)), total)]

\* a caller's weighting function: the unnormalised ramp 1, 2, .., nshells
CallableWeights(nshells) == [s \in 1..nshells |-> F(s)]

\* the local variable weights while nothing has been assigned to it
Unbound == <<>>

\* lines 722-736: the value of the local variable weights
WeightsOf(w, nshells) ==
    CASE w.kind = "constant" -> ConstantWeights(nshells)
      [] w.kind = "power"    -> PowerWeights(nshells, w.n)
      [] w.kind = "callable" -> CallableWeights(nshells)
      [] OTHER               -> Unbound

(***************************************************************************)
(* The inputs of super_fast_EMD_matrix.                                    *)
(***************************************************************************)
GridsOfShape(nshells, nbins) == [1..nshells -> [1..nbins -> 0..MaxVal]]

AllGrids == UNION {GridsOfShape(ns, nb) : ns \in 1..MaxShells, nb \in 1..MaxBins}

Batches == UNION {[1..n -> AllGrids] : n \in 1..MaxN}

BinWidths == {F(1), Norm(5, 2)}

Weightings ==
    {[kind |-> "constant", n |-> 0], [kind |-> "callable", n |-> 0],
     [kind |-> "other", n |-> 0]}
    \cup {[kind |-> "power", n |-> k] : k \in -1..MaxPow}

\* results_array: None, a NumPy array (in memory or memory-mapped) or an
\* HDF5 dataset, square, with any initial content
NoSink == [kind |-> "none", data |-> <<>>]

Sinks ==
    {NoSink} \cup
    {[kind |-> k, data |-> Filled(r, r, v)] :
        k \in {"ndarray", "hdf5"}, r \in 1..MaxN, v \in {0, 9}}

\* bool(results_array), as  if results_array:  evaluates it.  None is false;
\* an HDF5 dataset is true while it is open; a NumPy array of one element
\* has the truth of that element and one of several elements raises
\* ValueError.
Truth(ra) ==
    CASE ra.kind = "none" -> "false"
      [] ra.kind = "hdf5" -> "true"
      [] OTHER ->
            IF Len(ra.data) * Len(ra.data[1]) > 1 THEN "ValueError"
            ELSE IF FEq(ra.data[1][1], F(0)) THEN "false" ELSE "true"

\* an argument that the function has not read yet
NotRead == [kind |-> "notread"]

(***************************************************************************)
(* The state.  The variables of one call of super_fast_EMD_matrix come     *)
(* first, those of one use of the pairwise kernel _EMD_cumsum after them.  *)
(* The arguments weighting and results_array get their value when the      *)
(* function first reads them (NotRead before that): the behaviours are     *)
(* those of the calls whose arguments were fixed at entry.                 *)
(***************************************************************************)
VARIABLES
    grids,          \* argument: the batch of GRIDs
    bin_width,      \* argument
    weighting,      \* argument (with weighting_kwargs["n"])
    results_array,  \* argument: the caller's buffer and its content
    weights,        \* local: the shell weights
    grid_cumsum,    \* local: the cumulative tensor
    fresh,          \* the array np.zeros((N, N)) allocates, <<>> before
    output,         \* local: which buffer output names: "none", "fresh", "sink"
    i,              \* the loop variable of the row loop
    pc,             \* the position in super_fast_EMD_matrix
    err,            \* the exception that ended the call, "" if none
    evals,          \* history: evals[<<a, b>>] counts the kernel evaluations of pair (a, b)
    written,        \* history: the cells of the output assigned so far
    reads,          \* history: <<r, c>> when the step of row r has read cell c of the output
    cumulative_grid1, cumulative_grid2,  \* arguments of _EMD_cumsum
    pair_bin_width, pair_weights,        \* arguments of _EMD_cumsum
    emd,            \* _EMD_cumsum(cumulative_grid1, cumulative_grid2, ..), <<>> before the call
    emd_swapped,    \* _EMD_cumsum(cumulative_grid2, cumulative_grid1, ..), <<>> before the call
    pair_row,       \* _emd_cumsum_row on the stack of the two, index 0, <<>> before the call
    rdf_a, rdf_b,   \* arguments of rdf_emd_similarity: two dense 2-D histograms
    max_distance,   \* argument of rdf_emd_similarity
    sim_orig,       \* outcome of rdf_emd_similarity(rdf_a, rdf_b, method="orig")
    sim_fast,       \* outcome of rdf_emd_similarity(rdf_a, rdf_b, method="fast")
    sim_sparse,     \* outcome of the "fast" call on coo_matrix(rdf_a), coo_matrix(rdf_b)
    elem_similarity, \* argument of composition_similarity_matrix: the similarity table
    comp_index,     \* argument index of composition_similarity_matrix
    dist_matrix,    \* local of composition_similarity_matrix, <<>> before line 519
    comp_pc,        \* the position in composition_similarity_matrix
    comp_data,      \* argument data of composition_similarity_matrix, <<>> until it is read
    comp_indice,    \* argument indice of composition_similarity_matrix
    compo_emd,      \* the outcome of composition_similarity_matrix, NotCalled before
    all_rdf,        \* argument of rdf_similarity_matrix: the descriptors
    rdf_data,       \* argument data of rdf_similarity_matrix: the task ids, or None
    rdf_method,     \* argument method of rdf_similarity_matrix
    indice,         \* the argument indice of each call of rdf_similarity_matrix made so far
    df,             \* the outcome of each of those calls
    row_call,       \* the arguments of one call of _emd_cumsum_row and its local shell_weights
    row_output,     \* local output of _emd_cumsum_row, <<>> before np.zeros
    iterations,     \* the iterations j of the parallel loop: where each is, the value it
                    \* computed and the cells of output it has written
    row_pc,         \* the position in _emd_cumsum_row
    old_rdf,        \* argument all_rdf of rdf_similarity_matrix_old: the descriptors
    old_method,     \* argument method of rdf_similarity_matrix_old
    old_df,         \* the outcome of rdf_similarity_matrix_old, NotCalled before
    agg_producer,   \* the function whose matrix the aggregator is given
    agg_written,    \* the matrix of distances that producer returned
    agg_file,       \* the CSV file the matrix was saved to, <<>> before to_csv
    agg_scale,      \* argument scale of nn_bulk_modulus_matrix_add
    simi_mat,       \* the loaded and symmetrised matrix, <<>> before line 324
    total_emd,      \* local total_emd of nn_bulk_modulus_matrix_add, <<>> before line 318
    agg_pc,         \* the position in the aggregator
    same_rdf,       \* arguments all_rdf and data of find_same_rdf: the RDF of each task id
    same_rdfs,      \* local rdfs of find_same_rdf: the entries left, in insertion order
    match_list,     \* local match_list of find_same_rdf
    same_passes,    \* history: the passes of the while loop made so far
    same_pc,        \* the position in find_same_rdf
    call_a, call_b, \* arguments rdf_a and rdf_b of one call of rdf_emd_similarity, of any kind
    call_method,    \* its argument method
    call_out        \* its outcome, NotCalled before

matrix_vars ==
    <<grids, bin_width, weighting, results_array, weights, grid_cumsum, fresh,
      output, i, pc, err, evals, written, reads>>

pair_vars ==
    <<cumulative_grid1, cumulative_grid2, pair_bin_width, pair_weights, emd,
      emd_swapped, pair_row>>

sim_vars == <<rdf_a, rdf_b, max_distance, sim_orig, sim_fast, sim_sparse>>

comp_vars ==
    <<elem_similarity, comp_index, dist_matrix, comp_pc, comp_data, comp_indice,
      compo_emd>>

rdf_vars == <<all_rdf, rdf_data, rdf_method, indice, df>>

row_vars == <<row_call, row_output, iterations, row_pc>>

old_vars == <<old_rdf, old_method, old_df>>

agg_vars ==
    <<agg_producer, agg_written, agg_file, agg_scale, simi_mat, total_emd, agg_pc>>

same_vars == <<same_rdf, same_rdfs, match_list, same_passes, same_pc>>

call_vars == <<call_a, call_b, call_method, call_out>>

vars == <<matrix_vars, pair_vars, sim_vars, comp_vars, rdf_vars, row_vars, old_vars, agg_vars, same_vars, call_vars>>

\* the variables a call of super_fast_EMD_matrix leaves alone
outside_matrix == <<pair_vars, sim_vars, comp_vars, rdf_vars, row_vars, old_vars, agg_vars, same_vars, call_vars>>

\* the variables a call of the pairwise kernel leaves alone
outside_pair == <<matrix_vars, sim_vars, comp_vars, rdf_vars, row_vars, old_vars, agg_vars, same_vars, call_vars>>

\* the variables a call of rdf_emd_similarity leaves alone
outside_sim == <<matrix_vars, pair_vars, comp_vars, rdf_vars, row_vars, old_vars, agg_vars, same_vars, call_vars>>

\* the variables a call of composition_similarity_matrix leaves alone
outside_comp == <<matrix_vars, pair_vars, sim_vars, rdf_vars, row_vars, old_vars, agg_vars, same_vars, call_vars>>

\* the variables a call of rdf_similarity_matrix leaves alone
outside_rdf == <<matrix_vars, pair_vars, sim_vars, comp_vars, row_vars, old_vars, agg_vars, same_vars, call_vars>>

\* the variables a call of _emd_cumsum_row leaves alone
outside_row == <<matrix_vars, pair_vars, sim_vars, comp_vars, rdf_vars, old_vars, agg_vars, same_vars, call_vars>>

\* what a call gave: a value, an exception, or None when the function fell
\* off its end; NotCalled before the call
Value(x) == [kind |-> "value", v |-> x]

Raised(e) == [kind |-> e, v |-> <<>>]

ReturnedNone == [kind |-> "None", v |-> <<>>]

NotCalled == [kind |-> "notcalled", v |-> <<>>]

SimIdle ==
    /\ rdf_a = <<>>
    /\ rdf_b = <<>>
    /\ max_distance = 10
    /\ sim_orig = NotCalled
    /\ sim_fast = NotCalled
    /\ sim_sparse = NotCalled

CompIdle ==
    /\ elem_similarity = <<>>
    /\ comp_index = ""
    /\ dist_matrix = <<>>
    /\ comp_pc = "idle"
    /\ comp_data = <<>>
    /\ comp_indice = <<>>
    /\ compo_emd = NotCalled

RdfIdle ==
    /\ all_rdf = [ndim |-> 0, v |-> <<>>]
    /\ rdf_data = <<>>
    /\ rdf_method = ""
    /\ indice = <<>>
    /\ df = <<>>

RowIdle ==
    /\ row_call = <<>>
    /\ row_output = <<>>
    /\ iterations = <<>>
    /\ row_pc = "idle"

\* the variables a call of rdf_similarity_matrix_old leaves alone
outside_old == <<matrix_vars, pair_vars, sim_vars, comp_vars, rdf_vars, row_vars, agg_vars, same_vars, call_vars>>

OldIdle ==
    /\ old_rdf = [ndim |-> 0, v |-> <<>>]
    /\ old_method = ""
    /\ old_df = NotCalled

\* the variables the aggregators leave alone
outside_agg ==
    <<matrix_vars, pair_vars, sim_vars, comp_vars, rdf_vars, row_vars, old_vars, same_vars, call_vars>>

AggIdle ==
    /\ agg_producer = ""
    /\ agg_written = <<>>
    /\ agg_file = <<>>
    /\ agg_scale = FALSE
    /\ simi_mat = <<>>
    /\ total_emd = <<>>
    /\ agg_pc = "idle"

\* the variables a call of find_same_rdf leaves alone
outside_same ==
    <<matrix_vars, pair_vars, sim_vars, comp_vars, rdf_vars, row_vars, old_vars,
      agg_vars, call_vars>>

SameIdle ==
    /\ same_rdf = <<>>
    /\ same_rdfs = <<>>
    /\ match_list = <<>>
    /\ same_passes = 0
    /\ same_pc = "idle"

\* the variables that call of rdf_emd_similarity leaves alone
outside_call ==
    <<matrix_vars, pair_vars, sim_vars, comp_vars, rdf_vars, row_vars, old_vars,
      agg_vars, same_vars>>

CallIdle ==
    /\ call_a = <<>>
    /\ call_b = <<>>
    /\ call_method = ""
    /\ call_out = NotCalled

\* len(grids)
N == Len(grids)

\* grids[0].shape[0]
NShells == Len(grids[1])

\* the content of the buffer that the local variable output names
Out == IF output = "sink" THEN results_array.data ELSE fresh

Cells == (1..N) \X (1..N)

(***************************************************************************)
(* super_fast_EMD_matrix, line by line.                                    *)
(***************************************************************************)
Raise(e) ==
    /\ pc' = "raised"
    /\ err' = e

\* lines 717-720: shapes = np.array([i.shape for i in grids]);
\* np.all(np.isclose(shapes, shapes[0]))
SameDimensions(gs) ==
    \A a \in 1..Len(gs) : \A d \in 1..2 : IsClose(Shape(gs[a])[d], Shape(gs[1])[d])

CheckShapes ==
    /\ pc = "shapes"
    /\ IF SameDimensions(grids)
       THEN pc' = "weights" /\ err' = err
       ELSE Raise("AssertionError: All GRIDs must have the same dimensions")
    /\ UNCHANGED <<grids, bin_width, weighting, results_array, weights,
                   grid_cumsum, fresh, output, i, evals, written, reads>>
    /\ UNCHANGED outside_matrix

\* lines 722-736
ComputeWeights ==
    /\ pc = "weights"
    /\ \E w \in Weightings :
          /\ weighting' = w
          /\ weights' = WeightsOf(w, NShells)
    /\ pc' = "cumsum"
    /\ UNCHANGED <<grids, bin_width, results_array, grid_cumsum, fresh, output,
                   i, err, evals, written, reads>>
    /\ UNCHANGED outside_matrix

\* line 744: np.cumsum(grid_input, axis=-1)
CumSumBatch(gs) == [a \in 1..Len(gs) |-> CumSumGrid(gs[a])]

\* lines 746-748: np.all(np.isclose(grid_cumsum[0, 0, -1], grid_cumsum[:, :, -1]))
SameArea(cs) ==
    \A a \in 1..Len(cs) : \A s \in 1..Len(cs[a]) :
        IsClose(cs[1][1][Len(cs[1][1])], cs[a][s][Len(cs[a][s])])

\* lines 738-748
CumulateAndCheckArea ==
    /\ pc = "cumsum"
    /\ grid_cumsum' = CumSumBatch(grids)
    /\ IF SameArea(grid_cumsum')
       THEN pc' = "output" /\ err' = err
       ELSE Raise("AssertionError: All GRIDs must be normalised to the same area")
    /\ UNCHANGED <<grids, bin_width, weighting, results_array, weights, fresh,
                   output, i, evals, written, reads>>
    /\ UNCHANGED outside_matrix

\* lines 750-754
SelectOutput ==
    /\ pc = "output"
    /\ \E ra \in Sinks :
          /\ results_array' = ra
          /\ CASE Truth(ra) = "ValueError" ->
                    /\ Raise("ValueError: The truth value of an array with more than one element is ambiguous")
                    /\ UNCHANGED <<fresh, output>>
               [] Truth(ra) = "true" ->
                    IF Shape(ra.data) = <<N, N>>
                    THEN /\ output' = "sink"
                         /\ pc' = "row"
                         /\ UNCHANGED <<fresh, err>>
                    ELSE /\ Raise("AssertionError: results_array.shape")
                         /\ UNCHANGED <<fresh, output>>
               [] OTHER ->
                    /\ fresh' = Zeros(N, N)
                    /\ output' = "fresh"
                    /\ pc' = "row"
                    /\ err' = err
    /\ UNCHANGED <<grids, bin_width, weighting, weights, grid_cumsum, i, evals,
                   written, reads>>
    /\ UNCHANGED outside_matrix

\* buf with its row r replaced by row
WithRow(buf, r, row) == [buf EXCEPT ![r] = row]

\* the assignment into the buffer output names
Assign(buf) ==
    IF output = "sink"
    THEN results_array' = [results_array EXCEPT !.data = buf] /\ fresh' = fresh
    ELSE fresh' = buf /\ results_array' = results_array

\* line 758: output[i] = _emd_cumsum_row(grid_cumsum, i, bin_width, weights=weights)
StoreRow ==
    /\ pc = "row"
    /\ i <= N
    /\ IF weights = Unbound
       THEN /\ Raise("UnboundLocalError: weights")
            /\ UNCHANGED <<results_array, fresh, evals, written>>
       ELSE /\ Assign(WithRow(Out, i, emd_cumsum_row(grid_cumsum, i, bin_width, weights)))
            /\ evals' = [c \in Cells |->
                            IF c[1] = i /\ c[2] \in RowColumns(i, N)
                            THEN evals[c] + 1 ELSE evals[c]]
            /\ written' = written \cup {<<i, b>> : b \in 1..N}
            /\ pc' = "mirror"
            /\ err' = err
    /\ UNCHANGED <<grids, bin_width, weighting, weights, grid_cumsum, output, i,
                   reads>>
    /\ UNCHANGED outside_matrix

\* mutant: the lower triangle is not mirrored, cell (r, b) keeps its value
MirrorSourceSelf(r, b) == <<r, b>>

\* the right-hand side of line 760, output[:i, i]: the cell whose value goes
\* to cell (r, b), b < r
MirrorSource(r, b) == <<b, r>>

\* buf after  buf[r, :r] = buf[:r, r]
Mirrored(buf, r) ==
    [buf EXCEPT ![r] = [b \in 1..Len(buf[r]) |->
                           IF b < r
                           THEN buf[MirrorSource(r, b)[1]][MirrorSource(r, b)[2]]
                           ELSE buf[r][b]]]

\* line 760: output[i, :i] = output[:i, i], and the loop goes on to the next row
MirrorRow ==
    /\ pc = "mirror"
    /\ Assign(Mirrored(Out, i))
    /\ written' = written \cup {<<i, b>> : b \in 1..(i - 1)}
    /\ reads' = reads \cup {<<i, MirrorSource(i, b)>> : b \in 1..(i - 1)}
    /\ i' = i + 1
    /\ pc' = "row"
    /\ UNCHANGED <<grids, bin_width, weighting, weights, grid_cumsum, output,
                   err, evals>>
    /\ UNCHANGED outside_matrix

\* line 761: return output
Return ==
    /\ pc = "row"
    /\ i > N
    /\ pc' = "done"
    /\ UNCHANGED <<grids, bin_width, weighting, results_array, weights,
                   grid_cumsum, fresh, output, i, err, evals, written, reads>>
    /\ UNCHANGED outside_matrix

PairIdle ==
    /\ cumulative_grid1 = <<>>
    /\ cumulative_grid2 = <<>>
    /\ pair_bin_width = F(1)
    /\ pair_weights = PyNone
    /\ emd = <<>>
    /\ emd_swapped = <<>>
    /\ pair_row = <<>>

Init ==
    /\ grids \in Batches
    /\ bin_width \in BinWidths
    /\ weighting = NotRead
    /\ results_array = NotRead
    /\ weights = Unbound
    /\ grid_cumsum = <<>>
    /\ fresh = <<>>
    /\ output = "none"
    /\ i = 1
    /\ pc = "shapes"
    /\ err = ""
    /\ evals = [c \in Cells |-> 0]
    /\ written = {}
    /\ reads = {}
    /\ PairIdle
    /\ SimIdle
    /\ CompIdle
    /\ RdfIdle
    /\ RowIdle
    /\ OldIdle
    /\ AggIdle
    /\ SameIdle
    /\ CallIdle

Next ==
    \/ CheckShapes
    \/ ComputeWeights
    \/ CumulateAndCheckArea
    \/ SelectOutput
    \/ StoreRow
    \/ MirrorRow
    \/ Return

Spec == Init /\ [][Next]_vars

\* the value super_fast_EMD_matrix returned
Returned == Out

(***************************************************************************)
(* The pairwise kernel on its own: _EMD_cumsum is called on the cumulative *)
(* sums of two GRIDs of one shape, in both orders, and _emd_cumsum_row on  *)
(* the stack of the two.                                                   *)
(***************************************************************************)
PairShapes ==
    {sh \in (1..MaxShells) \X (1..MaxPairCells) : sh[1] * sh[2] <= MaxPairCells}

\* the GRIDs of a shape whose shells hold at most MaxMass
PairGrids(nshells, nbins) ==
    [1..nshells -> {h \in [1..nbins -> 0..MaxMass] : SumSeq(h) <= MaxMass}]

PairWeights(nshells) == {PyNone, CallableWeights(nshells)}

MatrixIdle ==
    /\ grids = <<>>
    /\ bin_width = F(1)
    /\ weighting = NotRead
    /\ results_array = NotRead
    /\ weights = Unbound
    /\ grid_cumsum = <<>>
    /\ fresh = <<>>
    /\ output = "none"
    /\ i = 1
    /\ pc = "idle"
    /\ err = ""
    /\ evals = <<>>
    /\ written = {}
    /\ reads = {}

InitPair ==
    /\ MatrixIdle
    /\ SimIdle
    /\ CompIdle
    /\ RdfIdle
    /\ RowIdle
    /\ OldIdle
    /\ AggIdle
    /\ SameIdle
    /\ CallIdle
    /\ \E sh \in PairShapes :
         \E g1, g2 \in PairGrids(sh[1], sh[2]) :
            /\ cumulative_grid1 = CumSumGrid(g1)
            /\ cumulative_grid2 = CumSumGrid(g2)
            /\ pair_weights \in PairWeights(sh[1])
    /\ pair_bin_width \in BinWidths
    /\ emd = <<>>
    /\ emd_swapped = <<>>
    /\ pair_row = <<>>

CallKernel ==
    /\ emd = <<>>
    /\ emd' = EMD_cumsum(cumulative_grid1, cumulative_grid2, pair_bin_width, pair_weights)
    /\ UNCHANGED <<cumulative_grid1, cumulative_grid2, pair_bin_width,
                   pair_weights, emd_swapped, pair_row>>
    /\ UNCHANGED outside_pair

CallSwapped ==
    /\ emd # <<>>
    /\ emd_swapped = <<>>
    /\ emd_swapped' = EMD_cumsum(cumulative_grid2, cumulative_grid1, pair_bin_width, pair_weights)
    /\ UNCHANGED <<cumulative_grid1, cumulative_grid2, pair_bin_width,
                   pair_weights, emd, pair_row>>
    /\ UNCHANGED outside_pair

CallRow ==
    /\ emd_swapped # <<>>
    /\ pair_row = <<>>
    /\ pair_row' = emd_cumsum_row(<<cumulative_grid1, cumulative_grid2>>, 1,
                                  pair_bin_width, pair_weights)
    /\ UNCHANGED <<cumulative_grid1, cumulative_grid2, pair_bin_width,
                   pair_weights, emd, emd_swapped>>
    /\ UNCHANGED outside_pair

NextPair ==
    \/ CallKernel
    \/ CallSwapped
    \/ CallRow

SpecPair == InitPair /\ [][NextPair]_vars

(***************************************************************************)
(* rdf_emd_similarity and the distance it calls,                           *)
(* scipy.stats.wasserstein_distance.  An array is a record: rep is         *)
(* "ndarray" or "coo_matrix", shape its shape, and v the nested sequence   *)
(* of its floats (ndarray) or the sequence of its stored (row, col, val)   *)
(* entries (coo_matrix).                                                   *)
(***************************************************************************)
Dense(g) == [rep |-> "ndarray", shape |-> Shape(g), v |-> g]

\* the entries of a 2-D array in row-major order
Entries(g) ==
    [k \in 1..(Len(g) * Len(g[1])) |->
        LET r == ((k - 1) \div Len(g[1])) + 1
            c == ((k - 1) % Len(g[1])) + 1
        IN  [row |-> r, col |-> c, val |-> g[r][c]]]

\* scipy.sparse.coo_matrix(g): the non-zero entries of g
Coo(g) ==
    [rep |-> "coo_matrix", shape |-> Shape(g),
     v |-> SelectSeq(Entries(g), LAMBDA t : t.val # F(0))]

\* the values of a set of finite floats in increasing order
RECURSIVE SortedValues(_)
SortedValues(S) ==
    IF S = {} THEN <<>>
    ELSE LET m == CHOOSE x \in S : \A y \in S : ~FLess(y, x)
         IN  <<m>> \o SortedValues(S \ {m})

\* the weight a distribution has at the positions <= x, as a fraction of
\* its total weight: the value of its CDF at x
Cdf(values, wts, x) ==
    FDiv(FSumSeq([k \in 1..Len(values) |->
                     IF FLess(x, values[k]) THEN F(0) ELSE wts[k]]),
         FSumSeq(wts))

\* scipy's check of one distribution
ValidDistribution(values, wts) ==
    /\ Len(values) > 0
    /\ Len(wts) = Len(values)
    /\ \A k \in 1..Len(wts) : wts[k][1] >= 0
    /\ FLess(F(0), FSumSeq(wts))

\* wasserstein_distance(u_values, v_values, u_weights, v_weights): the sum
\* over the sorted positions of |U - V| times the gap to the next position
\* (equal positions leave a gap of 0 and add nothing)
wasserstein_distance(u_values, v_values, u_weights, v_weights) ==
    IF ~ValidDistribution(u_values, u_weights) \/ ~ValidDistribution(v_values, v_weights)
    THEN Raised("ValueError")
    ELSE LET all_values == SortedValues({u_values[k] : k \in 1..Len(u_values)}
                                        \cup {v_values[k] : k \in 1..Len(v_values)})
         IN  Value(FSumSeq([k \in 1..(Len(all_values) - 1) |->
                 FMul(FAbs(FSub(Cdf(u_values, u_weights, all_values[k]),
                                Cdf(v_values, v_weights, all_values[k]))),
                      FSub(all_values[k + 1], all_values[k]))]))

\* np.linspace(0, stop, num)
Linspace(stop, num) ==
    [k \in 1..num |-> IF num = 1 THEN F(0) ELSE Norm((k - 1) * stop, num - 1)]

\* flattened into one long vector, row after row
Ravel(g) == [k \in 1..(Len(g) * Len(g[1])) |-> Entries(g)[k].val]

\* mutant: every shell keeps the coordinates of shell 0
BinCoordinatesNoOffset(nshells, nbins, maxd) ==
    [s \in 1..nshells |-> Linspace(maxd, nbins)]

\* lines 782, 800-803: emd_bins_1D, the coordinate of bin k of shell s is
\* emd_bins[k] + s * emd_bins[-1]
BinCoordinates(nshells, nbins, maxd) ==
    LET emd_bins == Linspace(maxd, nbins)
        shell_offsets == [s \in 1..nshells |-> FMul(F(s - 1), emd_bins[nbins])]
    IN  [s \in 1..nshells |-> [k \in 1..nbins |-> FAdd(emd_bins[k], shell_offsets[s])]]

\* rdf.sum(axis=1): the total of every row
RowSums(a) ==
    IF a.rep = "ndarray"
    THEN [s \in 1..a.shape[1] |-> FSumSeq(a.v[s])]
    ELSE [s \in 1..a.shape[1] |->
             FSumSeq([k \in 1..Len(a.v) |->
                         IF a.v[k].row = s THEN a.v[k].val ELSE F(0)])]

\* mutant: only the first shell is checked
ShellsNormalisedFirst(a) == FIsClose(RowSums(a)[1], F(1))

\* lines 794-799: np.isclose(rdf.sum(axis=1), 1.0).all()
ShellsNormalised(a) ==
    \A s \in 1..a.shape[1] : FIsClose(RowSums(a)[s], F(1))

\* lines 786-792, method == "orig": the mean of the distances of the shells
OrigMethod(a, b, emd_bins) ==
    LET shell_distances ==
            [j \in 1..a.shape[1] |->
                wasserstein_distance(emd_bins, emd_bins, a.v[j], b.v[j])]
    IN  IF \E j \in 1..a.shape[1] : shell_distances[j].kind # "value"
        THEN Raised("ValueError")
        ELSE Value(FMean([j \in 1..a.shape[1] |-> shell_distances[j].v]))

\* mutant: the row of a stored entry is ignored
CooCoordinatesFirstRow(emd_bins_1D, a) ==
    [k \in 1..Len(a.v) |-> emd_bins_1D[1][a.v[k].col]]

\* lines 812-813: emd_bins_1D[rdf.row, rdf.col]
CooCoordinates(emd_bins_1D, a) ==
    [k \in 1..Len(a.v) |-> emd_bins_1D[a.v[k].row][a.v[k].col]]

\* lines 794-816, method == "fast"
FastMethod(a, b, maxd) ==
    LET emd_bins_1D == BinCoordinates(a.shape[1], a.shape[2], maxd)
    IN  IF ~ShellsNormalised(a) \/ ~ShellsNormalised(b)
        THEN Raised("AssertionError")
        ELSE IF a.rep = "ndarray" /\ b.rep = "ndarray"
        THEN wasserstein_distance(Ravel(emd_bins_1D), Ravel(emd_bins_1D),
                                  Ravel(a.v), Ravel(b.v))
        ELSE IF a.rep = "coo_matrix" /\ b.rep = "coo_matrix"
        THEN wasserstein_distance(CooCoordinates(emd_bins_1D, a),
                                  CooCoordinates(emd_bins_1D, b),
                                  [k \in 1..Len(a.v) |-> a.v[k].val],
                                  [k \in 1..Len(b.v) |-> b.v[k].val])
        ELSE ReturnedNone

\* rdf_emd_similarity(rdf_a, rdf_b, max_distance, method), lines 781-818
rdf_emd_similarity(a, b, maxd, method) ==
    IF a.shape # b.shape THEN Raised("AssertionError")
    ELSE LET emd_bins == Linspace(maxd, a.shape[Len(a.shape)])
         IN  IF Len(a.shape) = 2
             THEN IF method = "orig"
                  THEN IF a.rep = "ndarray" /\ b.rep = "ndarray"
                       THEN OrigMethod(a, b, emd_bins)
                       ELSE Raised("TypeError")
                  ELSE IF method = "fast"
                  THEN FastMethod(a, b, maxd)
                  ELSE ReturnedNone
             ELSE IF Len(a.shape) = 1
             THEN wasserstein_distance(emd_bins, emd_bins, a.v, b.v)
             ELSE ReturnedNone

(***************************************************************************)
(* Calls of rdf_emd_similarity on one pair of 2-D histograms: with         *)
(* method "orig", with method "fast", and with method "fast" on the        *)
(* sparse form of the two.                                                 *)
(***************************************************************************)
MaxDistances == {1, 10}

\* the 2-D histogram whose entries are the counts of g over MaxMass
Fractions(g) == [s \in 1..Len(g) |-> [k \in 1..Len(g[s]) |-> Norm(g[s][k], MaxMass)]]

InitSim ==
    /\ MatrixIdle
    /\ PairIdle
    /\ CompIdle
    /\ RdfIdle
    /\ RowIdle
    /\ OldIdle
    /\ AggIdle
    /\ SameIdle
    /\ CallIdle
    /\ \E sh \in PairShapes :
         \E ga, gb \in PairGrids(sh[1], sh[2]) :
            /\ rdf_a = Fractions(ga)
            /\ rdf_b = Fractions(gb)
    /\ max_distance \in MaxDistances
    /\ sim_orig = NotCalled
    /\ sim_fast = NotCalled
    /\ sim_sparse = NotCalled

CallOrig ==
    /\ sim_orig = NotCalled
    /\ sim_orig' = rdf_emd_similarity(Dense(rdf_a), Dense(rdf_b), max_distance, "orig")
    /\ UNCHANGED <<rdf_a, rdf_b, max_distance, sim_fast, sim_sparse>>
    /\ UNCHANGED outside_sim

CallFast ==
    /\ sim_orig # NotCalled
    /\ sim_fast = NotCalled
    /\ sim_fast' = rdf_emd_similarity(Dense(rdf_a), Dense(rdf_b), max_distance, "fast")
    /\ UNCHANGED <<rdf_a, rdf_b, max_distance, sim_orig, sim_sparse>>
    /\ UNCHANGED outside_sim

CallSparse ==
    /\ sim_fast # NotCalled
    /\ sim_sparse = NotCalled
    /\ sim_sparse' = rdf_emd_similarity(Coo(rdf_a), Coo(rdf_b), max_distance, "fast")
    /\ UNCHANGED <<rdf_a, rdf_b, max_distance, sim_orig, sim_fast>>
    /\ UNCHANGED outside_sim

NextSim ==
    \/ CallOrig
    \/ CallFast
    \/ CallSparse

SpecSim == InitSim /\ [][NextSim]_vars

(***************************************************************************)
(* composition_similarity_matrix up to the hand-over of the ground metric  *)
(* to the transport solver.  A table (a pandas DataFrame) is a record:     *)
(* labels is the sequence of its row labels, which are its column labels   *)
(* too, and v the square array of its floats.  The float arrays of pandas  *)
(* follow the NumPy error model: 1/0 is inf, no exception.                 *)
(***************************************************************************)
\* the element orderings that element_indice() sets in gridrdf.composition,
\* on a periodic table of three elements
ElementOrder(name) ==
    CASE name = "z_number_78"       -> <<"H", "He">>
      [] name = "z_number"          -> <<"H", "He", "Li">>
      [] name = "pettifor"          -> <<"He", "Li", "H">>
      [] name = "modified_pettifor" -> <<"He", "H", "Li">>
      [] name = "elem_present"      -> <<"H", "Li">>

OrderingNames ==
    {"z_number_78", "z_number", "pettifor", "modified_pettifor", "elem_present"}

\* the scores of a similarity table
Scores == {F(0), Norm(1, 9), F(1)}

\* the tables a caller can pass: rows and columns in the order of the
\* atomic number, symmetric scores
SimilarityTables ==
    {[labels |-> ls, v |-> m] :
        ls \in {<<"H", "He">>, <<"H", "He", "Li">>},
        m \in UNION {{t \in [1..n -> [1..n -> Scores]] :
                        \A a, b \in 1..n : t[a][b] = t[b][a]} : n \in 2..3}}

\* np.log10 of a float: exact on the powers of ten, rounded to five
\* decimals on 2
Log10(x) ==
    CASE IsNaN(x) -> NaN
      [] x = <<1, 0>> -> x
      [] x = F(1) -> F(0)
      [] x = F(2) -> Norm(30103, 100000)
      [] x = F(10) -> F(1)

\* lines 468, 523: one entry of  1 / (np.log10(1 / dist_matrix + 1))
GroundMetricEntry(S, a, b) ==
    FDiv(F(1), Log10(FAdd(FDiv(F(1), S[a][b]), F(1))))

\* the position of label x in the sequence ls, 0 if it is not there
Position(ls, x) ==
    IF \E k \in 1..Len(ls) : ls[k] = x
    THEN CHOOSE k \in 1..Len(ls) : ls[k] = x
    ELSE 0

\* DataFrame.reindex(columns=ls, index=ls): the rows and columns of the
\* labels ls in that order, NaN where the table has no such label
Reindex(t, ls) ==
    [labels |-> ls,
     v |-> [a \in 1..Len(ls) |-> [b \in 1..Len(ls) |->
               IF Position(t.labels, ls[a]) = 0 \/ Position(t.labels, ls[b]) = 0
               THEN NaN
               ELSE t.v[Position(t.labels, ls[a])][Position(t.labels, ls[b])]]]]

InitComp ==
    /\ MatrixIdle
    /\ PairIdle
    /\ SimIdle
    /\ RdfIdle
    /\ RowIdle
    /\ OldIdle
    /\ AggIdle
    /\ SameIdle
    /\ CallIdle
    /\ elem_similarity \in {t \in SimilarityTables : Len(t.labels) = Len(t.v)}
    /\ comp_index \in OrderingNames
    /\ dist_matrix = <<>>
    /\ comp_pc = "read"
    /\ comp_data = <<>>
    /\ comp_indice = <<>>
    /\ compo_emd = NotCalled

\* lines 519-522: dist_matrix = elem_similarity
ReadTable ==
    /\ comp_pc = "read"
    /\ dist_matrix' = elem_similarity
    /\ comp_pc' = "transform"
    /\ UNCHANGED <<elem_similarity, comp_index, comp_data, comp_indice, compo_emd>>
    /\ UNCHANGED outside_comp

\* line 523: dist_matrix = 1 / (np.log10(1 / dist_matrix + 1))
TransformTable ==
    /\ comp_pc = "transform"
    /\ dist_matrix' =
          [dist_matrix EXCEPT !.v =
              [a \in 1..Len(dist_matrix.v) |-> [b \in 1..Len(dist_matrix.v) |->
                  GroundMetricEntry(dist_matrix.v, a, b)]]]
    /\ comp_pc' = "reindex"
    /\ UNCHANGED <<elem_similarity, comp_index, comp_data, comp_indice, compo_emd>>
    /\ UNCHANGED outside_comp

\* lines 525-528: only index == "pettifor" reorders the table
ReindexTable ==
    /\ comp_pc = "reindex"
    /\ dist_matrix' = IF comp_index = "pettifor"
                      THEN Reindex(dist_matrix, ElementOrder("pettifor"))
                      ELSE dist_matrix
    /\ comp_pc' = "values"
    /\ UNCHANGED <<elem_similarity, comp_index, comp_data, comp_indice, compo_emd>>
    /\ UNCHANGED outside_comp

\* line 530: dist_matrix.values.copy(order="C"), the array the solver gets
\* (the labels stay in the model to tell which element a row stands for)
HandToSolver ==
    /\ comp_pc = "values"
    /\ comp_pc' = "handed"
    /\ UNCHANGED <<elem_similarity, comp_index, dist_matrix, comp_data, comp_indice,
                   compo_emd>>
    /\ UNCHANGED outside_comp

\* pyemd.emd(first_histogram, second_histogram, distance_matrix): the
\* minimal work of a transport plan between the two histograms under the
\* ground metric, kept as the term of the call
emd_solver(first_histogram, second_histogram, distance_matrix) ==
    [solver |-> "pyemd.emd", first |-> first_histogram, second |-> second_histogram,
     metric |-> distance_matrix]

\* lines 515-516: if not indice: indice = [0, len(data)]
IndiceOrAll(ind, data) == IF ind = PyNone THEN <<0, Len(data)>> ELSE ind

\* lines 532-546.  ids are the labels of the rows indice[0]..indice[1]-1
\* and pd.DataFrame(np.zeros((indice[-1], indice[-1])), index=ids,
\* columns=ids) raises ValueError unless the array has one row and one
\* column per label; an assignment to a column that is not there yet
\* appends it to the table
CompositionTable(data, ind, dm) ==
    LET s == IndiceOrAll(ind, data)[1]
        e == IndiceOrAll(ind, data)[2]
        ids == [k \in 1..(e - s) |-> data[s + k].id]
    IN  IF e # Len(ids) THEN Raised("ValueError")
        ELSE Value([index |-> ids,
                    columns |-> [k \in 1..Len(data) |-> data[k].id],
                    v |-> [k \in 1..(e - s) |-> [i2 \in 1..Len(data) |->
                              IF s + k <= i2
                              THEN emd_solver(data[s + k].vec, data[i2].vec, dm)
                              ELSE NaN]]])

\* one-hot composition vectors over n elements
ElementVectors(n) == {[k \in 1..n |-> IF k = a THEN F(1) ELSE F(0)] : a \in 1..n}

\* the sub-ranges of n structures, and indice omitted
SubRanges(n) == {PyNone} \cup {se \in (0..n) \X (0..n) : se[1] < se[2]}

\* lines 515-516 and 532-546: the arguments data and indice are read and
\* the table is built and returned
BuildTable ==
    /\ comp_pc = "handed"
    /\ \E n \in 1..2 : \E vs \in [1..n -> ElementVectors(Len(dist_matrix.v))] :
       \E ind \in SubRanges(n) :
          /\ comp_data' = [k \in 1..n |-> [id |-> "mp-" \o ToString(k), vec |-> vs[k]]]
          /\ comp_indice' = ind
          /\ compo_emd' = CompositionTable(comp_data', ind, dist_matrix.v)
    /\ comp_pc' = "returned"
    /\ UNCHANGED <<elem_similarity, comp_index, dist_matrix>>
    /\ UNCHANGED outside_comp

NextComp ==
    \/ ReadTable
    \/ TransformTable
    \/ ReindexTable
    \/ HandToSolver
    \/ BuildTable

SpecComp == InitComp /\ [][NextComp]_vars

(***************************************************************************)
(* rdf_similarity_matrix.  A descriptor is a 1-D histogram (a sequence of  *)
(* integers) or a 2-D GRID; a DataFrame is a record of its row labels      *)
(* (index), its column labels (columns) and its cells (v).                 *)
(***************************************************************************)
\* the default of the argument max_distance
RdfMaxDistance == 10

\* lines 756-761 as one computation: the rows i, i + 1, .. of the loop
RECURSIVE RowLoop(_, _, _, _, _)
RowLoop(out, cs, r, bw, w) ==
    IF r > Len(cs) THEN out
    ELSE RowLoop(Mirrored(WithRow(out, r, emd_cumsum_row(cs, r, bw, w)), r),
                 cs, r + 1, bw, w)

\* super_fast_EMD_matrix(grids, bin_width, weighting="constant",
\* results_array=None): its outcome
super_fast_EMD_matrix(gs, bw) ==
    IF ~SameDimensions(gs) \/ ~SameArea(CumSumBatch(gs))
    THEN Raised("AssertionError")
    ELSE Value(RowLoop(Zeros(Len(gs), Len(gs)), CumSumBatch(gs), 1, bw,
                       ConstantWeights(Len(gs[1]))))

\* the largest r in lo..hi with r * r <= n
RECURSIVE ISqrt(_, _, _)
ISqrt(n, lo, hi) ==
    IF lo = hi THEN lo
    ELSE LET mid == (lo + hi + 1) \div 2
         IN  IF mid * mid <= n THEN ISqrt(n, mid, hi) ELSE ISqrt(n, lo, mid - 1)

\* np.sqrt of a non-negative integer, rounded down to three decimals
Sqrt(n) == Norm(ISqrt(n * 1000000, 0, n * 1000), 1000)

\* scipy.spatial.distance.cosine(u, v): 1 - u.v / sqrt(u.u * v.v)
CosineDistance(u, v) ==
    LET dot(x, y) == SumSeq([k \in 1..Len(x) |-> x[k] * y[k]])
    IN  FSub(F(1), FDiv(F(dot(u, v)), Sqrt(dot(u, u) * dot(v, v))))

\* a 1-D histogram as an array
Dense1D(h) == [rep |-> "ndarray", shape |-> <<Len(h)>>, v |-> [k \in 1..Len(h) |-> F(h[k])]]

\* lines 941-949: shell_distance of the pair (i1, i2) of 1-D descriptors
ShellDistance(rdfs, i1, i2, method) ==
    CASE method = "emd" ->
            rdf_emd_similarity(Dense1D(rdfs[i1]), Dense1D(rdfs[i2]), RdfMaxDistance, "fast")
      [] method = "cosine" -> Value(CosineDistance(rdfs[i1], rdfs[i2]))
      [] OTHER -> Raised("UnboundLocalError")

\* np.arange(n) as labels
Arange(n) == [k \in 1..n |-> ToString(k - 1)]

\* range(indice[0], indice[1]): the rows of the 1-D branch (one more than
\* the index in the code)
RdfRows(ind, ids) == (ind[1] + 1)..ind[2]

\* lines 932-953, the 1-D branch
RdfMatrix1D(rdfs, ids, ind, method) ==
    IF ind = PyNone THEN Raised("TypeError")
    ELSE IF RdfRows(ind, ids) = {} THEN Value([index |-> <<>>, columns |-> <<>>, v |-> <<>>])
    ELSE IF ids = PyNone THEN Raised("TypeError")
    ELSE LET rows == RdfRows(ind, ids)
             cell(i1, i2) == ShellDistance(rdfs, i1, i2, method)
             failure(i1) ==
                 IF i1 > Len(ids) THEN "IndexError"
                 ELSE IF \E i2 \in i1..Len(ids) : cell(i1, i2).kind # "value"
                 THEN cell(i1, CHOOSE i2 \in i1..Len(ids) :
                                  /\ cell(i1, i2).kind # "value"
                                  /\ \A j \in i1..(i2 - 1) : cell(i1, j).kind = "value").kind
                 ELSE ""
         IN  IF \E i1 \in rows : failure(i1) # ""
             THEN Raised(failure(CHOOSE i1 \in rows :
                                    /\ failure(i1) # ""
                                    /\ \A j \in rows : j < i1 => failure(j) = ""))
             ELSE Value([index |-> [k \in 1..(ind[2] - ind[1]) |-> ids[ind[1] + k]],
                         columns |-> ids,
                         v |-> [k \in 1..(ind[2] - ind[1]) |-> [i2 \in 1..Len(ids) |->
                                   IF ind[1] + k <= i2
                                   THEN cell(ind[1] + k, i2).v
                                   ELSE NaN]]])

\* lines 898 and 904: rdf_lengths = [i.shape[0] for i in all_rdf] and
\* bin_width = max_distance / rdf_lengths[0]; shape[0] of a 2-D descriptor
\* is its number of shells
RdfBinWidth(rdfs) == Norm(RdfMaxDistance, Len(rdfs.v[1]))

\* rdf_similarity_matrix(all_rdf, data, indice, method), lines 898-954;
\* rdfs.ndim is len(all_rdf[0].shape) and rdfs.v the descriptors
rdf_similarity_matrix(rdfs, ids, ind, method) ==
    IF \E a \in 1..Len(rdfs.v) : Len(rdfs.v[a]) # Len(rdfs.v[1])
    THEN Raised("AssertionError")
    ELSE LET bw == RdfBinWidth(rdfs)
         IN  IF rdfs.ndim = 2
             THEN LET labels == IF ids # PyNone THEN ids ELSE Arange(Len(rdfs.v))
                      dissimilarity == super_fast_EMD_matrix(rdfs.v, bw)
                  IN  IF dissimilarity.kind # "value" THEN dissimilarity
                      ELSE Value([index |-> labels, columns |-> labels,
                                  v |-> dissimilarity.v])
             ELSE RdfMatrix1D(rdfs.v, ids, ind, method)

\* the 1-D descriptors
Histograms == UNION {[1..nb -> 0..MaxVal] : nb \in 1..MaxBins}

TaskIds(n) == [k \in 1..n |-> "mp-" \o ToString(k)]

Indices == {PyNone, <<0, 1>>, <<0, 2>>, <<1, 2>>}

InitRdf ==
    /\ MatrixIdle
    /\ PairIdle
    /\ SimIdle
    /\ CompIdle
    /\ RowIdle
    /\ OldIdle
    /\ AggIdle
    /\ SameIdle
    /\ CallIdle
    /\ \E n \in 1..2 :
          /\ \/ \E hs \in [1..n -> Histograms] : all_rdf = [ndim |-> 1, v |-> hs]
             \/ \E gs \in [1..n -> AllGrids] : all_rdf = [ndim |-> 2, v |-> gs]
          /\ rdf_data \in {PyNone, TaskIds(n)}
    /\ rdf_method \in {"emd", "cosine", "linear"}
    /\ indice = <<>>
    /\ df = <<>>

\* one call of rdf_similarity_matrix on the same descriptors, data and
\* method, with some indice
CallSimilarityMatrix ==
    /\ Len(df) < 2
    /\ \E ind \in Indices :
          /\ indice' = Append(indice, ind)
          /\ df' = Append(df, rdf_similarity_matrix(all_rdf, rdf_data, ind, rdf_method))
    /\ UNCHANGED <<all_rdf, rdf_data, rdf_method>>
    /\ UNCHANGED outside_rdf

NextRdf == CallSimilarityMatrix

SpecRdf == InitRdf /\ [][NextRdf]_vars

(***************************************************************************)
(* The parallel region of _emd_cumsum_row.  numba runs the iterations j of *)
(* nb.prange(index, N) on several threads in any order: an iteration       *)
(* first computes its value from the arguments and then stores it, and     *)
(* the steps of different iterations interleave freely.                    *)
(***************************************************************************)
\* the batches super_fast_EMD_matrix passes on: one shape, one area
CheckedBatches == {b \in Batches : SameDimensions(b) /\ SameArea(CumSumBatch(b))}

InitRow ==
    /\ MatrixIdle
    /\ PairIdle
    /\ SimIdle
    /\ CompIdle
    /\ RdfIdle
    /\ OldIdle
    /\ AggIdle
    /\ SameIdle
    /\ CallIdle
    /\ \E b \in CheckedBatches : \E r \in 1..Len(b) : \E bw \in BinWidths :
         \E w \in PairWeights(Len(b[1])) :
            row_call = [cumsum_grid_array |-> CumSumBatch(b), index |-> r,
                        bin_width |-> bw, weights |-> w, shell_weights |-> <<>>]
    /\ row_output = <<>>
    /\ iterations = <<>>
    /\ row_pc = "start"

\* lines 599-605: shell_weights, output = np.zeros(N), and the iterations
\* of the loop are handed to the threads
StartRow ==
    /\ row_pc = "start"
    /\ LET n == Len(row_call.cumsum_grid_array)
           nshells == Len(row_call.cumsum_grid_array[1])
       IN  /\ row_call' =
                 [row_call EXCEPT !.shell_weights =
                     IF row_call.weights = PyNone THEN Ones(nshells)
                     ELSE [s \in 1..nshells |-> FMul(F(1), row_call.weights[s])]]
           /\ row_output' = [j \in 1..n |-> F(0)]
           /\ iterations' = [j \in RowColumns(row_call.index, n) |->
                                [at |-> "start", value |-> <<>>, wrote |-> {}]]
    /\ row_pc' = "parallel"
    /\ UNCHANGED outside_row

\* lines 607-612, the right-hand side: iteration j reads the arguments
ComputeEntry(j) ==
    /\ row_pc = "parallel"
    /\ iterations[j].at = "start"
    /\ iterations' =
          [iterations EXCEPT ![j] =
              [at |-> "computed",
               value |-> RowEntry(row_call.cumsum_grid_array, row_call.index, j,
                                  row_call.bin_width, row_call.shell_weights),
               wrote |-> {}]]
    /\ UNCHANGED <<row_call, row_output, row_pc>>
    /\ UNCHANGED outside_row

\* mutant: every iteration stores into the cell of the row itself
IterationTargetRow(r, j) == r

\* line 607, the left-hand side: the cell of output iteration j stores into
IterationTarget(r, j) == j

\* line 607, the assignment  output[j] = ...
StoreEntry(j) ==
    /\ row_pc = "parallel"
    /\ iterations[j].at = "computed"
    /\ row_output' = [row_output EXCEPT ![IterationTarget(row_call.index, j)] =
                                            iterations[j].value]
    /\ iterations' = [iterations EXCEPT ![j].at = "done",
                                        ![j].wrote = {IterationTarget(row_call.index, j)}]
    /\ UNCHANGED <<row_call, row_pc>>
    /\ UNCHANGED outside_row

\* line 614: the loop is over when every iteration is, return output
ReturnRow ==
    /\ row_pc = "parallel"
    /\ \A j \in DOMAIN iterations : iterations[j].at = "done"
    /\ row_pc' = "returned"
    /\ UNCHANGED <<row_call, row_output, iterations>>
    /\ UNCHANGED outside_row

NextRow ==
    \/ StartRow
    \/ \E j \in DOMAIN iterations : ComputeEntry(j)
    \/ \E j \in DOMAIN iterations : StoreEntry(j)
    \/ ReturnRow

SpecRow == InitRow /\ [][NextRow]_vars

(***************************************************************************)
(* Reference definitions used by the properties.                           *)
(***************************************************************************)
MinOfSet(S) == CHOOSE m \in S : \A x \in S : m <= x

\* the total mass of shell s of GRID a of the batch
ShellMass(gs, a, s) == SumSeq(gs[a][s])

\* the histogram whose prefix sums are c
UnCum(c) == [k \in 1..Len(c) |-> IF k = 1 THEN c[1] ELSE c[k] - c[k - 1]]

\* The cheapest way to carry the masses a[k..] onto the demands b, one unit
\* of mass from bin p to bin q costing |p - q|: every split of a[k] over
\* the bins that still have demand is tried.
RECURSIVE MinTransport(_, _, _)
MinTransport(a, b, k) ==
    IF k > Len(a) THEN 0
    ELSE LET splits == {f \in [1..Len(b) -> 0..a[k]] :
                            /\ \A q \in 1..Len(b) : f[q] <= b[q]
                            /\ SumSeq(f) = a[k]}
         IN  MinOfSet({SumSeq([q \in 1..Len(b) |-> f[q] * Abs(k - q)])
                         + MinTransport(a, [q \in 1..Len(b) |-> b[q] - f[q]], k + 1) :
                       f \in splits})

\* the matrix super_fast_EMD_matrix is to return for the cumulative tensor
\* cs: the kernel value of (a, b) for a <= b and its mirror image below
ReferenceMatrix(cs, bw, w) ==
    [a \in 1..Len(cs) |-> [b \in 1..Len(cs) |->
        IF a <= b THEN emd_cumsum_row(cs, a, bw, w)[b]
                  ELSE emd_cumsum_row(cs, b, bw, w)[a]]]

\* every shell of every GRID of the batch has the same total mass, not zero
EqualNonZeroMass ==
    /\ \A a \in 1..N : \A s \in 1..Len(grids[a]) :
          ShellMass(grids, a, s) = ShellMass(grids, 1, 1)
    /\ ShellMass(grids, 1, 1) # 0

(***************************************************************************)
(* C1: for N >= 1 GRIDs of one shape whose shells all have the same        *)
(* non-zero total mass, the matrix super_fast_EMD_matrix returns is N x N, *)
(* its diagonal is 0 and D[a][b] = D[b][a] for all a, b.                   *)
(***************************************************************************)
C1_SquareZeroDiagonalSymmetric ==
    (pc = "done" /\ EqualNonZeroMass) =>
        /\ Len(Returned) = N
        /\ \A a \in 1..N : Len(Returned[a]) = N
        /\ \A a \in 1..N : FEq(Returned[a][a], F(0))
        /\ \A a, b \in 1..N : FEq(Returned[a][b], Returned[b][a])

\* three 2-shell GRIDs gave a matrix with non-zero distances
C1_Witness ==
    /\ pc = "done"
    /\ EqualNonZeroMass
    /\ N = 3
    /\ NShells = 2
    /\ ~FEq(Returned[1][2], F(0))
    /\ ~FEq(Returned[2][3], F(0))
    /\ ~FEq(Returned[1][2], Returned[1][3])

(***************************************************************************)
(* C2: for two histograms a, b of one length and the same non-zero total   *)
(* mass, _EMD_cumsum on their prefix sums (one shell, default weights)     *)
(* equals the minimum cost of transporting a onto b at cost w * |p - q|    *)
(* per unit of normalised mass; [1,0,0,0] against [0,0,0,1] with w = 1     *)
(* gives 3.                                                                *)
(***************************************************************************)
C2_OneShell ==
    /\ emd # <<>>
    /\ Len(cumulative_grid1) = 1
    /\ pair_weights = PyNone
    /\ SeqMax(cumulative_grid1[1]) # 0
    /\ cumulative_grid1[1][Len(cumulative_grid1[1])]
         = cumulative_grid2[1][Len(cumulative_grid2[1])]

C2_Example ==
    /\ emd # <<>>
    /\ cumulative_grid1 = <<CumSum(<<1, 0, 0, 0>>)>>
    /\ cumulative_grid2 = <<CumSum(<<0, 0, 0, 1>>)>>
    /\ pair_bin_width = F(1)
    /\ pair_weights = PyNone

C2_CumulativeEqualsTransport ==
    /\ C2_OneShell =>
         FEq(emd,
             FDiv(FMul(pair_bin_width,
                       F(MinTransport(UnCum(cumulative_grid1[1]),
                                      UnCum(cumulative_grid2[1]), 1))),
                  F(SumSeq(UnCum(cumulative_grid1[1])))))
    /\ C2_Example => FEq(emd, F(3))

\* the kernel was run on the example and returned 3
C2_Witness == C2_Example /\ C2_OneShell /\ emd = F(3)

(***************************************************************************)
(* C3: _EMD_cumsum(A, B, w, wt), and every entry j >= index of             *)
(* _emd_cumsum_row, equals the weighted mean over the shells of            *)
(* wt[s] * (SUM over bins of |A[s] - B[s]|) * w / max(A[s]), each shell    *)
(* normalised by its own maximum cumulative value.                         *)
(* The code divides every shell by np.max of the whole GRID A; the two     *)
(* differ as soon as the shells of A have different maxima.                *)
(***************************************************************************)
\* the weights the kernel uses
C3_Weights == IF pair_weights = PyNone THEN Ones(Len(cumulative_grid1)) ELSE pair_weights

\* (1 / nshells) * SUM_s wt[s] * (SUM_i |A[s][i] - B[s][i]|) * w / divisor(s)
C3_WeightedMean(A, B, divisor(_)) ==
    FDiv(FSumSeq([s \in 1..Len(A) |->
                     FDiv(FMul(FMul(C3_Weights[s], F(SumAbsDiff(A[s], B[s]))),
                               pair_bin_width),
                          F(divisor(s)))]),
         F(Len(A)))

\* no shell of A or B is empty, so that max(A[s]) can divide
C3_NoEmptyShell ==
    \A s \in 1..Len(cumulative_grid1) :
        SeqMax(cumulative_grid1[s]) # 0 /\ SeqMax(cumulative_grid2[s]) # 0

\* the claim as stated: the divisor of shell s is max(A[s])
C3_PerShellMaximum ==
    LET own(s) == SeqMax(cumulative_grid1[s])
    IN  /\ (emd # <<>> /\ C3_NoEmptyShell) =>
              emd = C3_WeightedMean(cumulative_grid1, cumulative_grid2, own)
        /\ (pair_row # <<>> /\ C3_NoEmptyShell) =>
              pair_row[2] = C3_WeightedMean(cumulative_grid1, cumulative_grid2, own)

\* the claim as amended: the divisor of every shell is the maximum of A
C3_WholeGridMaximum ==
    LET whole(s) == GridMax(cumulative_grid1)
    IN  /\ emd # <<>> =>
              emd = C3_WeightedMean(cumulative_grid1, cumulative_grid2, whole)
        /\ pair_row # <<>> =>
              /\ pair_row[2] = C3_WeightedMean(cumulative_grid1, cumulative_grid2, whole)
              /\ pair_row[1] = C3_WeightedMean(cumulative_grid1, cumulative_grid1, whole)

\* both kernels ran on 2-shell GRIDs whose shells have different maxima,
\* with weights that are not uniform, and gave a non-zero distance
C3_Witness ==
    /\ pair_row # <<>>
    /\ Len(cumulative_grid1) = 2
    /\ SeqMax(cumulative_grid1[1]) # SeqMax(cumulative_grid1[2])
    /\ SeqMax(cumulative_grid1[1]) # 0
    /\ SeqMax(cumulative_grid1[2]) # 0
    /\ pair_weights # PyNone
    /\ IsFinite(emd)
    /\ ~FEq(emd, F(0))

(***************************************************************************)
(* C4: identity.  For every cumulative GRID x that _EMD_cumsum accepts,    *)
(* the distance of x to itself is exactly 0.                               *)
(***************************************************************************)
C4_Identity ==
    (emd # <<>> /\ cumulative_grid1 = cumulative_grid2) => FEq(emd, F(0))

(***************************************************************************)
(* C5: symmetry of the pairwise kernel.  For all pairs (x, y) of           *)
(* cumulative GRIDs of one shape, any bin width and any weights,           *)
(* _EMD_cumsum(x, y) = _EMD_cumsum(y, x).                                  *)
(* The call divides by the maximum of its first argument, so the two       *)
(* orders agree when the two maxima do.                                    *)
(***************************************************************************)
\* the claim as stated, for two GRIDs that both hold mass
C5_Symmetric ==
    (/\ emd # <<>>
     /\ emd_swapped # <<>>
     /\ GridMax(cumulative_grid1) # 0
     /\ GridMax(cumulative_grid2) # 0)
        => FEq(emd, emd_swapped)

\* the claim as amended: for x, y with np.max(x) = np.max(y) the two calls
\* return the same float (NaN both times when x and y are all zero)
C5_SymmetricForEqualMaxima ==
    (/\ emd # <<>>
     /\ emd_swapped # <<>>
     /\ GridMax(cumulative_grid1) = GridMax(cumulative_grid2))
        => emd = emd_swapped

\* both orders were computed for two different GRIDs with the same maximum
\* and gave a non-zero distance
C5_Witness ==
    /\ emd # <<>>
    /\ emd_swapped # <<>>
    /\ GridMax(cumulative_grid1) = GridMax(cumulative_grid2)
    /\ cumulative_grid1 # cumulative_grid2
    /\ Len(cumulative_grid1) = 2
    /\ IsFinite(emd)
    /\ ~FEq(emd, F(0))

(***************************************************************************)
(* Predicates on a call of super_fast_EMD_matrix.                          *)
(***************************************************************************)
\* the row kernel has not run and no cell of the output has been assigned
NothingComputed == written = {} /\ \A c \in Cells : evals[c] = 0

\* some shell of some GRID of the batch has no mass
HasZeroMassShell ==
    \E a \in 1..N : \E s \in 1..Len(grids[a]) : ShellMass(grids, a, s) = 0

\* the caller passed a buffer, and it has shape (N, N)
SinkOfRightShape ==
    /\ results_array # NotRead
    /\ results_array.kind # "none"
    /\ Shape(results_array.data) = <<N, N>>

\* the caller passed a buffer of another shape
SinkOfWrongShape ==
    /\ results_array # NotRead
    /\ results_array.kind # "none"
    /\ Shape(results_array.data) # <<N, N>>

(***************************************************************************)
(* C6: fail-fast validation.  When the GRIDs do not all have one shape,    *)
(* or some shell differs in total mass from the others, or the supplied    *)
(* sink has the wrong shape, the error is raised before the row kernel has *)
(* run for any row and before any cell of the output is written.           *)
(***************************************************************************)
C6_FailFast ==
    /\ ~SameDimensions(grids) =>
          /\ pc \in {"shapes", "raised"}
          /\ NothingComputed
    /\ ~SameArea(CumSumBatch(grids)) =>
          /\ pc \in {"shapes", "weights", "cumsum", "raised"}
          /\ NothingComputed
    /\ (SinkOfWrongShape /\ ~HasZeroMassShell) =>
          /\ pc = "raised"
          /\ NothingComputed

(***************************************************************************)
(* C7: a batch with a zero-mass histogram makes super_fast_EMD_matrix fail *)
(* (DegenerateInputError); no distance value, be it 0, NaN or infinity, is *)
(* returned for it.                                                        *)
(***************************************************************************)
C7_ZeroMassRejected ==
    HasZeroMassShell => pc # "done"

(***************************************************************************)
(* C8: when the caller passes as results_array a buffer of shape (N, N),   *)
(* whatever its kind and initial content, super_fast_EMD_matrix stores     *)
(* the distances into it, returns that buffer, and its final content is    *)
(* the matrix a call with results_array=None returns.                      *)
(***************************************************************************)
C8_SinkFilledAndReturned ==
    (SinkOfRightShape /\ weights # Unbound /\ ~HasZeroMassShell) =>
        /\ pc # "raised"
        /\ pc = "done" =>
              /\ output = "sink"
              /\ results_array.data = ReferenceMatrix(grid_cumsum, bin_width, weights)

(***************************************************************************)
(* C9: the kernel is evaluated only for index pairs (a, b) with a <= b,    *)
(* exactly once for each; every entry with a > b is a copy of entry        *)
(* (b, a) and the kernel never computes it.                                *)
(***************************************************************************)
C9_UpperTriangleOnce ==
    (pc \in {"row", "mirror", "done"}) =>
        /\ \A c \in Cells : c[1] > c[2] => evals[c] = 0
        /\ \A c \in Cells : evals[c] <= 1
        /\ \A c \in Cells :
              evals[c] = 1 <=> (c[1] <= c[2] /\ (c[1] < i \/ (c[1] = i /\ pc = "mirror")))
        /\ pc = "done" => \A c \in Cells : c[1] <= c[2] => evals[c] = 1
        /\ \A a \in 1..N : \A b \in 1..N :
              (b < a /\ a < i) =>
                  Out[a][b] = emd_cumsum_row(grid_cumsum, b, bin_width, weights)[a]
        /\ \A a \in 1..N : \A b \in 1..N :
              (b < a /\ a < i) => Out[a][b] = Out[b][a]

\* a 3 x 3 matrix was returned whose three mirrored entries are not zero
C9_Witness ==
    /\ pc = "done"
    /\ N = 3
    /\ \A a \in 1..N : \A b \in 1..N : b < a => IsFinite(Out[a][b]) /\ ~FEq(Out[a][b], F(0))
    /\ \A c \in Cells : evals[c] = (IF c[1] <= c[2] THEN 1 ELSE 0)

(***************************************************************************)
(* C10: for the built-in weightings ('constant', and 'power' with any      *)
(* exponent n) the weight vector handed to the row kernel has one entry    *)
(* per shell and sums to nshells; 'power' with n = 0 gives the 'constant'  *)
(* weights, hence the same matrix.                                         *)
(***************************************************************************)
C10_BuiltIn == weighting # NotRead /\ weighting.kind \in {"constant", "power"}

C10_WeightsSumToShells ==
    C10_BuiltIn =>
        /\ Len(weights) = NShells
        /\ FEq(FSumSeq(weights), F(NShells))
        /\ (weighting.kind = "power" /\ weighting.n = 0) =>
              /\ weights = Ones(NShells)
              /\ pc = "done" => Out = ReferenceMatrix(grid_cumsum, bin_width, Ones(NShells))
        /\ (weighting.kind = "constant" /\ pc = "done") =>
              Out = ReferenceMatrix(grid_cumsum, bin_width, Ones(NShells))

\* a matrix was built for 2-shell GRIDs under power weights that are not
\* uniform, and again under 'power' with n = 0
C10_Witness ==
    /\ pc = "done"
    /\ NShells = 2
    /\ weighting.kind = "power"
    /\ weighting.n = 1
    /\ weights = <<Norm(4, 3), Norm(2, 3)>>
    /\ N >= 2
    /\ IsFinite(Out[1][2]) /\ ~FEq(Out[1][2], F(0))

(***************************************************************************)
(* Predicates on the calls of rdf_emd_similarity.                          *)
(***************************************************************************)
\* every shell of rdf_a and of rdf_b sums to exactly 1
SimNormalised ==
    /\ \A s \in 1..Len(rdf_a) : FSumSeq(rdf_a[s]) = F(1)
    /\ \A s \in 1..Len(rdf_b) : FSumSeq(rdf_b[s]) = F(1)

\* emd_bins_1D of the call: the coordinate of every bin of every shell
SimCoordinates == BinCoordinates(Len(rdf_a), Len(rdf_a[1]), max_distance)

\* the distance of two coordinates
Gap(x, y) == FAbs(FSub(x, y))

SimShellRange == 1..Len(rdf_a)

SimBinRange == 1..Len(rdf_a[1])

(***************************************************************************)
(* C11: for two 2-D histograms of one shape in which every shell of both   *)
(* sums to 1, rdf_emd_similarity with method "fast" returns the value that *)
(* method "orig" returns, the mean of the distances of the shells.         *)
(***************************************************************************)
C11_FastEqualsOrig ==
    (sim_fast # NotCalled /\ SimNormalised) =>
        /\ sim_orig.kind = "value"
        /\ sim_fast = sim_orig

\* both methods ran on two normalised 2-shell histograms that differ in
\* both shells, and gave a non-zero distance
C11_Witness ==
    /\ sim_fast # NotCalled
    /\ SimNormalised
    /\ Len(rdf_a) = 2
    /\ Len(rdf_a[1]) = 2
    /\ rdf_a[1] # rdf_b[1]
    /\ rdf_a[2] # rdf_b[2]
    /\ rdf_a[1] # rdf_a[2]
    /\ sim_fast.kind = "value"
    /\ sim_fast = sim_orig
    /\ ~FEq(sim_fast.v, F(0))

(***************************************************************************)
(* C12: when method "fast" is asked for and some shell of either input     *)
(* does not sum to 1, the fast variant is rejected and the computation     *)
(* falls back to method "orig": the caller still obtains the mean of the   *)
(* distances of the shells.                                                *)
(* The code raises the AssertionError of the check to the caller; nothing  *)
(* catches it and no distance is returned.                                 *)
(***************************************************************************)
\* the claim as stated, where method "orig" has a distance to give
C12_FallsBackToOrig ==
    (sim_fast # NotCalled /\ ~SimNormalised /\ sim_orig.kind = "value") =>
        sim_fast = sim_orig

\* C12 as amended: the call with method "fast" ends with the AssertionError
\* of the check, for dense and for sparse input
C12_FastRejected ==
    /\ (sim_fast # NotCalled /\ ~SimNormalised) => sim_fast = Raised("AssertionError")
    /\ (sim_sparse # NotCalled /\ ~SimNormalised) => sim_sparse = Raised("AssertionError")

\* method "fast" was rejected for a 2-shell input whose first shells are
\* normalised and for which method "orig" gave a distance
C12_Witness ==
    /\ sim_sparse # NotCalled
    /\ ~SimNormalised
    /\ Len(rdf_a) = 2
    /\ FSumSeq(rdf_a[1]) = F(1)
    /\ FSumSeq(rdf_b[1]) = F(1)
    /\ sim_orig.kind = "value"
    /\ ~FEq(sim_orig.v, F(0))
    /\ sim_fast = Raised("AssertionError")

(***************************************************************************)
(* C13: in the fast-flatten coordinates (the bins of shell s offset by s   *)
(* times the last bin coordinate) the distance between any bin of one      *)
(* shell and any bin of another shell is strictly greater than the         *)
(* distance between any two bins of one shell; no two bins of different    *)
(* shells share a coordinate.                                              *)
(* The offset of a shell is the last coordinate of the shell before it, so *)
(* the last bin of a shell and the first bin of the next coincide.         *)
(***************************************************************************)
\* the claim as stated, for shells of two bins or more
C13_ShellsApart ==
    (sim_fast.kind = "value" /\ Len(rdf_a[1]) >= 2) =>
        \A s, t \in SimShellRange : \A k, l, p, q \in SimBinRange :
            s # t =>
                /\ FLess(Gap(SimCoordinates[s][p], SimCoordinates[s][q]),
                         Gap(SimCoordinates[s][k], SimCoordinates[t][l]))
                /\ SimCoordinates[s][k] # SimCoordinates[t][l]

\* C13 as amended: the shells are laid out in order, no bin of a shell
\* above a bin of a later shell, and two bins of different shells share a
\* coordinate exactly when they are the last bin of a shell and the first
\* bin of the next (or the shells have one bin, all at coordinate 0)
C13_ShellsInOrder ==
    sim_fast.kind = "value" =>
        \A s, t \in SimShellRange : \A k, l \in SimBinRange :
            s < t =>
                /\ ~FLess(SimCoordinates[t][l], SimCoordinates[s][k])
                /\ SimCoordinates[s][k] = SimCoordinates[t][l]
                     <=> \/ Len(rdf_a[1]) = 1
                         \/ (t = s + 1 /\ k = Len(rdf_a[1]) /\ l = 1)

\* the coordinates were built for two shells of two bins, which meet at
\* max_distance
C13_Witness ==
    /\ sim_fast.kind = "value"
    /\ Len(rdf_a) = 2
    /\ Len(rdf_a[1]) = 2
    /\ SimCoordinates[1][2] = F(max_distance)
    /\ SimCoordinates[2][1] = F(max_distance)
    /\ SimCoordinates[2][2] = F(2 * max_distance)

(***************************************************************************)
(* C14: for two per-shell-normalised 2-D histograms, method "fast" returns *)
(* the same distance when both are given as sparse (row, col, value)       *)
(* triples as when both are dense; positions absent from the triples       *)
(* behave as zero mass.                                                    *)
(***************************************************************************)
C14_SparseEqualsDense ==
    (sim_sparse # NotCalled /\ SimNormalised) =>
        /\ sim_fast.kind = "value"
        /\ sim_sparse = sim_fast

\* the sparse call ran on 2-shell histograms with empty bins, which the
\* triples leave out, and gave the non-zero distance of the dense call
C14_Witness ==
    /\ sim_sparse # NotCalled
    /\ SimNormalised
    /\ Len(rdf_a) = 2
    /\ Len(rdf_a[1]) = 2
    /\ Len(Coo(rdf_a).v) < 4
    /\ Len(Coo(rdf_b).v) < 4
    /\ sim_sparse.kind = "value"
    /\ sim_sparse = sim_fast
    /\ ~FEq(sim_sparse.v, F(0))

(***************************************************************************)
(* Predicates on a call of composition_similarity_matrix.                  *)
(***************************************************************************)
\* the elements of a sequence of labels
LabelSet(ls) == {ls[k] : k \in 1..Len(ls)}

\* the table has every element of the requested ordering
TableCoversOrder == LabelSet(ElementOrder(comp_index)) \subseteq LabelSet(elem_similarity.labels)

\* the table has the elements of the requested ordering and no others
TableMatchesOrder == LabelSet(ElementOrder(comp_index)) = LabelSet(elem_similarity.labels)

\* the ground metric has a NaN entry
MetricHasNaN ==
    \E a, b \in 1..Len(dist_matrix.v) : IsNaN(dist_matrix.v[a][b])

(***************************************************************************)
(* C15: the ground metric handed to the transport solver,                  *)
(* M[i][j] = 1/log10(1/S[i][j] + 1), has M[i][i] = 0 for every element i   *)
(* and no infinite or NaN entry, for every similarity table with symmetric *)
(* scores in [0, 1].                                                       *)
(***************************************************************************)
C15_ZeroDiagonalFinite ==
    (comp_pc = "handed" /\ TableCoversOrder) =>
        /\ \A a \in 1..Len(dist_matrix.v) : FEq(dist_matrix.v[a][a], F(0))
        /\ \A a, b \in 1..Len(dist_matrix.v) : IsFinite(dist_matrix.v[a][b])

(***************************************************************************)
(* C16: when the requested element ordering has an element that the        *)
(* similarity table lacks, building the ground metric fails with an error  *)
(* (ShapeMismatch / KeyError-class); no matrix is handed on and no row or  *)
(* column of missing values is silently introduced.                        *)
(***************************************************************************)
C16_MissingElementRaises ==
    ~TableCoversOrder =>
        /\ comp_pc # "handed"
        /\ comp_pc = "values" => ~MetricHasNaN

(***************************************************************************)
(* C17: for every supported ordering name (z_number_78, z_number,          *)
(* pettifor, modified_pettifor, elem_present) passed as index, the ground  *)
(* metric handed to the transport solver has its rows and columns in that  *)
(* named element order, the order of the entries of the composition        *)
(* vectors.                                                                *)
(***************************************************************************)
C17_MetricInNamedOrder ==
    (comp_pc = "handed" /\ TableMatchesOrder) =>
        dist_matrix.labels = ElementOrder(comp_index)

(***************************************************************************)
(* C18: the result of rdf_similarity_matrix does not depend on the         *)
(* argument indice: for 1-D and for 2-D descriptors, two calls that differ *)
(* only in indice, indice=None included, return the same matrix.           *)
(***************************************************************************)
\* the task ids are given and every 1-D descriptor holds mass
C18_UsableInput ==
    /\ rdf_data # PyNone
    /\ all_rdf.ndim = 1 => \A a \in 1..Len(all_rdf.v) : SumSeq(all_rdf.v[a]) > 0

C18_IndiceIgnored ==
    (Len(df) = 2 /\ C18_UsableInput) =>
        /\ df[1].kind = df[2].kind
        /\ df[1].kind = "value" => df[1].v = df[2].v

(***************************************************************************)
(* C19: while super_fast_EMD_matrix builds the matrix row by row, the step *)
(* of row r never reads a cell of the output that belongs to a row written *)
(* before (rows 0..r-1); rows are written in increasing order and a        *)
(* written row is read back by no later step.                              *)
(* The mirror of row r, output[r, :r] = output[:r, r], reads column r of   *)
(* every row written before.                                               *)
(***************************************************************************)
\* the claim as stated
C19_NeverReadsWrittenRows ==
    \A rd \in reads : rd[2][1] >= rd[1]

\* C19 as amended: rows are written in increasing order, and the step of
\* row r reads of the output exactly the cells (a, r), a < r, of the rows
\* written before, for the mirror; no cell of row r or of a later row is read
C19_ReadsOnlyMirrorColumn ==
    (pc \in {"row", "mirror", "done"}) =>
        /\ \A c \in written : c[1] < i \/ (c[1] = i /\ pc = "mirror")
        /\ \A rd \in reads :
              /\ rd[1] < i
              /\ rd[2][2] = rd[1]
              /\ rd[2][1] < rd[1]
              /\ rd[2] \in written
        /\ \A r \in 1..N : \A a \in 1..N :
              (r < i /\ a < r) => <<r, <<a, r>>>> \in reads

\* a 3 x 3 matrix was built: row 1 read one cell, row 2 two cells
C19_Witness ==
    /\ pc = "done"
    /\ N = 3
    /\ reads = {<<2, <<1, 2>>>>, <<3, <<1, 3>>>>, <<3, <<2, 3>>>>}
    /\ ~FEq(Out[1][3], F(0))

(***************************************************************************)
(* C20: inside the parallel region of _emd_cumsum_row, for any             *)
(* interleaving of the iterations j in [index, N), each iteration writes   *)
(* exactly one cell, output[j], that no other iteration writes or reads,   *)
(* and reads only the shared read-only cumulative tensor, weights and bin  *)
(* width; the returned row is the same for every interleaving.             *)
(***************************************************************************)
C20_DisjointWrites ==
    (row_pc \in {"parallel", "returned"}) =>
        LET cs == row_call.cumsum_grid_array
            row == emd_cumsum_row(cs, row_call.index, row_call.bin_width,
                                  row_call.weights)
        IN  /\ DOMAIN iterations = row_call.index..Len(cs)
            /\ \A j \in DOMAIN iterations :
                  /\ iterations[j].wrote \subseteq {j}
                  /\ iterations[j].at = "done" <=> iterations[j].wrote = {j}
                  /\ iterations[j].at = "done" => row_output[j] = row[j]
                  /\ iterations[j].at # "done" => row_output[j] = F(0)
            /\ \A j, k \in DOMAIN iterations :
                  j # k => iterations[j].wrote \cap iterations[k].wrote = {}
            /\ \A j \in 1..Len(cs) : j \notin DOMAIN iterations => row_output[j] = F(0)
            /\ row_pc = "returned" => row_output = row

\* the row of index 0 of three GRIDs was returned, its three iterations
\* having stored three different values
C20_Witness ==
    /\ row_pc = "returned"
    /\ row_call.index = 1
    /\ Len(row_call.cumsum_grid_array) = 3
    /\ \A j \in 1..3 : iterations[j].wrote = {j}
    /\ FEq(row_output[1], F(0))
    /\ ~FEq(row_output[2], F(0))
    /\ ~FEq(row_output[3], F(0))
    /\ ~FEq(row_output[2], row_output[3])

(***************************************************************************)
(* C21: in super_fast_EMD_matrix the step that stores the computed         *)
(* distances of row i writes only the cells (i, j) with j >= i; the cells  *)
(* of row i with column < i are written only by the separate mirroring     *)
(* step, and no cell of any other row is written.                          *)
(* Line 758 assigns the whole of row i: the row the helper returns starts  *)
(* as np.zeros(N), so the cells with column < i receive 0 before the       *)
(* mirror overwrites them.                                                 *)
(***************************************************************************)
\* a step of line 758, and one of line 760
IsStoreStep == pc = "row" /\ pc' = "mirror"

IsMirrorStep == pc = "mirror" /\ pc' = "row"

\* the claim as stated: the store step leaves the cells left of the
\* diagonal as they were
C21_StoreWritesUpperOnly ==
    [][IsStoreStep =>
          /\ \A b \in 1..(i - 1) : Out'[i][b] = Out[i][b]
          /\ \A a \in 1..N : a # i => Out'[a] = Out[a]]_vars

\* C21 as amended: the store step assigns every cell of row i, 0 to the
\* cells with column < i and the kernel's distance to the others; the
\* mirror step assigns the cells of row i with column < i; neither step
\* writes a cell of another row
C21_StoreWritesWholeRow ==
    [][/\ IsStoreStep =>
            /\ \A b \in 1..N :
                  Out'[i][b] =
                      IF b < i THEN F(0)
                      ELSE EMD_cumsum(grid_cumsum[i], grid_cumsum[b], bin_width, weights)
            /\ \A a \in 1..N : a # i => Out'[a] = Out[a]
            /\ written' = written \cup {<<i, b>> : b \in 1..N}
       /\ IsMirrorStep =>
            /\ \A b \in 1..N :
                  Out'[i][b] = IF b < i THEN Out[b][i] ELSE Out[i][b]
            /\ \A a \in 1..N : a # i => Out'[a] = Out[a]
            /\ written' = written \cup {<<i, b>> : b \in 1..(i - 1)}]_vars

\* row 2 of a caller's HDF5 buffer of 9s has been stored and not mirrored
\* yet: its cell left of the diagonal holds 0, row 3 is still untouched
C21_Witness ==
    /\ pc = "mirror"
    /\ i = 2
    /\ N = 3
    /\ output = "sink"
    /\ FEq(Out[2][1], F(0))
    /\ ~FEq(Out[1][2], F(0))
    /\ \A b \in 1..3 : Out[3][b] = F(9)

(***************************************************************************)
(* C22: loop invariant of the matrix builder.  After rows 0..k of          *)
(* super_fast_EMD_matrix have been processed in increasing order, every    *)
(* cell (a, b) with a <= k holds its final value and the leading           *)
(* (k+1) x (k+1) block is symmetric; the mirror of row i copies only cells *)
(* of column i that rows 0..i-1 have already filled with kernel values.    *)
(***************************************************************************)
\* the value cell (a, b) has in the returned matrix
FinalValue(a, b) ==
    IF a <= b
    THEN EMD_cumsum(grid_cumsum[a], grid_cumsum[b], bin_width, weights)
    ELSE EMD_cumsum(grid_cumsum[b], grid_cumsum[a], bin_width, weights)

C22_LoopInvariant ==
    (pc \in {"row", "mirror", "done"}) =>
        /\ \A a \in 1..N : \A b \in 1..N : a < i => Out[a][b] = FinalValue(a, b)
        /\ \A a \in 1..N : \A b \in 1..N : (a < i /\ b < i) => Out[a][b] = Out[b][a]
        /\ \A rd \in reads :
              /\ rd[2][2] = rd[1]
              /\ rd[2][1] < rd[1]
              /\ evals[rd[2]] = 1
              /\ Out[rd[2][1]][rd[2][2]] = FinalValue(rd[2][1], rd[2][2])
        /\ pc = "done" => i = N + 1

\* two of three rows have been processed: the leading 2 x 2 block holds a
\* mirrored distance that is not zero and row 3 of the fresh array is
\* still all zeros although its final values are not
C22_Witness ==
    /\ pc = "row"
    /\ i = 3
    /\ N = 3
    /\ output = "fresh"
    /\ ~FEq(Out[2][1], F(0))
    /\ IsFinite(Out[2][1])
    /\ \A b \in 1..3 : Out[3][b] = F(0)
    /\ ~FEq(FinalValue(3, 1), F(0))
    /\ ~FEq(FinalValue(3, 2), F(0))

(***************************************************************************)
(* rdf_similarity_matrix_old (deprecated), called with order=None on       *)
(* descriptors that are all 1-D of one length or all 2-D with one number   *)
(* of bins, and with one of the inner-product or cosine methods.           *)
(***************************************************************************)
\* np.inner(u, v) of two histograms
Inner(u, v) == F(SumSeq([k \in 1..Len(u) |-> u[k] * v[k]]))

\* 1.0 / (x + 1e-11): the guard is below the resolution of the rationals
\* of this module, the quotient is kept as the term it is
ReciprocalGuarded(x) == [one_over |-> x, plus |-> "1e-11"]

\* np.array([len(all_rdf[i1]), len(all_rdf[i2])]).min()
MinLen(g1, g2) == IF Len(g1) <= Len(g2) THEN Len(g1) ELSE Len(g2)

\* lines 1005-1019: the entry of shell_distances for one shell
OldShell(u, v, method) ==
    IF method \in {"linear", "linear-reciprocal"} THEN Inner(u, v)
    ELSE CosineDistance(u, v)

\* lines 996-1035, the 2-D branch: the value stored for the pair (i1, i2)
OldEntry2D(g1, g2, method) ==
    LET rdf_len == MinLen(g1, g2)
        shell_distances == [j \in 1..rdf_len |-> OldShell(g1[j], g2[j], method)]
    IN  IF method \in {"linear", "cosine"} THEN FMean(shell_distances)
        ELSE ReciprocalGuarded(FMean(shell_distances))

\* lines 1037-1058, the 1-D branch: the value stored for the pair (i1, i2)
OldEntry1D(h1, h2, method) ==
    IF method \in {"linear", "cosine"} THEN Inner(h1, h2)
    ELSE ReciprocalGuarded(Inner(h1, h2))

\* rdf_similarity_matrix_old(data, all_rdf, order=None, method): the loops
\* store every pair i1 <= i2 at (i1, i2) and at (i2, i1)
rdf_similarity_matrix_old(rdfs, method) ==
    LET entry(a, b) ==
            IF rdfs.ndim = 2 THEN OldEntry2D(rdfs.v[a], rdfs.v[b], method)
            ELSE OldEntry1D(rdfs.v[a], rdfs.v[b], method)
    IN  Value([i1 \in 1..Len(rdfs.v) |-> [i2 \in 1..Len(rdfs.v) |->
                  IF i1 <= i2 THEN entry(i1, i2) ELSE entry(i2, i1)]])

OldMethods == {"linear", "linear-reciprocal", "cosine", "cosine-reciprocal"}

\* batches of 2-D descriptors with one number of bins
SameBins(gs) == \A a \in 1..Len(gs) : Len(gs[a][1]) = Len(gs[1][1])

\* batches of 1-D descriptors of one length
SameLength(hs) == \A a \in 1..Len(hs) : Len(hs[a]) = Len(hs[1])

InitOld ==
    /\ MatrixIdle
    /\ PairIdle
    /\ SimIdle
    /\ CompIdle
    /\ RdfIdle
    /\ RowIdle
    /\ AggIdle
    /\ SameIdle
    /\ CallIdle
    /\ \E n \in 1..2 :
          \/ \E hs \in [1..n -> Histograms] :
                SameLength(hs) /\ old_rdf = [ndim |-> 1, v |-> hs]
          \/ \E gs \in [1..n -> AllGrids] :
                SameBins(gs) /\ old_rdf = [ndim |-> 2, v |-> gs]
    /\ old_method \in OldMethods
    /\ old_df = NotCalled

CallOld ==
    /\ old_df = NotCalled
    /\ old_df' = rdf_similarity_matrix_old(old_rdf, old_method)
    /\ UNCHANGED <<old_rdf, old_method>>
    /\ UNCHANGED outside_old

NextOld == CallOld

SpecOld == InitOld /\ [][NextOld]_vars

(***************************************************************************)
(* C23: in rdf_similarity_matrix_old, method='cosine' stores for each pair *)
(* the scipy cosine distance of the two descriptors and                    *)
(* method='cosine-reciprocal' the reciprocal of that cosine value (plus    *)
(* the 1e-11 guard), for 1-D input as well as for 2-D input (where the     *)
(* per-shell values are averaged); 'linear' and 'linear-reciprocal' are    *)
(* the only methods that use the inner product.                            *)
(***************************************************************************)
\* the cosine value of the pair (a, b): of the two histograms, or the mean
\* over the shells
CosineOfPair(a, b) ==
    IF old_rdf.ndim = 1 THEN CosineDistance(old_rdf.v[a], old_rdf.v[b])
    ELSE FMean([j \in 1..MinLen(old_rdf.v[a], old_rdf.v[b]) |->
                   CosineDistance(old_rdf.v[a][j], old_rdf.v[b][j])])

\* no descriptor has an all-zero histogram, whose cosine is not defined
C23_UsableInput ==
    IF old_rdf.ndim = 1
    THEN \A a \in 1..Len(old_rdf.v) : SumSeq(old_rdf.v[a]) > 0
    ELSE \A a \in 1..Len(old_rdf.v) : \A j \in 1..Len(old_rdf.v[a]) :
            SumSeq(old_rdf.v[a][j]) > 0

C23_CosineIsCosine ==
    (old_df # NotCalled /\ C23_UsableInput) =>
        \A a \in 1..Len(old_rdf.v) : \A b \in a..Len(old_rdf.v) :
            /\ old_method = "cosine" => old_df.v[a][b] = CosineOfPair(a, b)
            /\ old_method = "cosine-reciprocal" =>
                  old_df.v[a][b] = ReciprocalGuarded(CosineOfPair(a, b))

(***************************************************************************)
(* C24: for 2-D (multi-shell) input of shape (nshells, nbins),             *)
(* rdf_similarity_matrix passes to super_fast_EMD_matrix the bin width     *)
(* max_distance / nbins, and its same-size check rejects inputs that       *)
(* differ in number of bins; the bin width does not depend on the number   *)
(* of shells.                                                              *)
(***************************************************************************)
\* x.shape[1] of the first 2-D descriptor
NBins(rdfs) == Len(rdfs.v[1][1])

C24_BinWidthFromBins ==
    (all_rdf.ndim = 2 /\ Len(df) >= 1) =>
        /\ SameDimensions(all_rdf.v) =>
              /\ RdfBinWidth(all_rdf) = Norm(RdfMaxDistance, NBins(all_rdf))
              /\ df[1].kind = "value" =>
                    df[1].v.v = super_fast_EMD_matrix(
                                    all_rdf.v, Norm(RdfMaxDistance, NBins(all_rdf))).v
        /\ ~SameDimensions(all_rdf.v) => df[1].kind = "AssertionError"

(***************************************************************************)
(* The aggregators nn_bulk_modulus_matrix_add and                          *)
(* nn_bulk_modulus_matrix_step.  The matrix a producer returned is saved   *)
(* with DataFrame.to_csv, the aggregator reads it back, symmetrises it and *)
(* nn_bulk_modulus_matrix_add adds it to total_emd; the search for the     *)
(* nearest neighbours that follows only reads these matrices.              *)
(***************************************************************************)
\* DataFrame.to_csv writes a missing value as an empty field and a number
\* as its shortest repr, which pd.read_csv reads back as the same float
CsvField(x) == IF IsNaN(x) THEN [text |-> "", num |-> F(0)] ELSE [text |-> "number", num |-> x]

CsvValue(f) == IF f.text = "" THEN NaN ELSE f.num

to_csv(m) == [a \in 1..Len(m) |-> [b \in 1..Len(m[a]) |-> CsvField(m[a][b])]]

read_csv(file) == [a \in 1..Len(file) |-> [b \in 1..Len(file[a]) |-> CsvValue(file[a][b])]]

\* DataFrame.fillna(0)
FillNa(m) == [a \in 1..Len(m) |-> [b \in 1..Len(m[a]) |-> IF IsNaN(m[a][b]) THEN F(0) ELSE m[a][b]]]

\* DataFrame.transpose() of a square table
Transpose(m) == [a \in 1..Len(m) |-> [b \in 1..Len(m) |-> m[b][a]]]

\* DataFrame.add of two tables with the same labels
MatAdd(m1, m2) == [a \in 1..Len(m1) |-> [b \in 1..Len(m1[a]) |-> FAdd(m1[a][b], m2[a][b])]]

\* rdf_emd * 10
MatTimes(m, k) == [a \in 1..Len(m) |-> [b \in 1..Len(m[a]) |-> FMul(m[a][b], F(k))]]

\* lines 324, 333, 339, 406, 410: m.fillna(0).add(m.transpose().fillna(0))
Symmetrise(m) == MatAdd(FillNa(m), FillNa(Transpose(m)))

Producers == {"super_fast_EMD_matrix", "rdf_similarity_matrix, 1-D"}

InitAgg ==
    /\ MatrixIdle
    /\ PairIdle
    /\ SimIdle
    /\ CompIdle
    /\ RdfIdle
    /\ RowIdle
    /\ OldIdle
    /\ SameIdle
    /\ CallIdle
    /\ agg_producer \in Producers
    /\ \E n \in 2..MaxN :
          IF agg_producer = "super_fast_EMD_matrix"
          THEN \E b \in CheckedBatches : \E bw \in BinWidths :
                  /\ Len(b) = n
                  /\ agg_written = super_fast_EMD_matrix(b, bw).v
          ELSE \E hs \in [1..n -> Histograms] : \E method \in {"emd", "cosine"} :
                  /\ SameLength(hs)
                  /\ RdfMatrix1D(hs, TaskIds(n), <<0, n>>, method).kind = "value"
                  /\ agg_written = RdfMatrix1D(hs, TaskIds(n), <<0, n>>, method).v.v
    /\ agg_file = <<>>
    /\ agg_scale \in BOOLEAN
    /\ simi_mat = <<>>
    /\ total_emd = <<>>
    /\ agg_pc = "produced"

\* lines 1251 and 1266: df.to_csv(...)
SaveMatrix ==
    /\ agg_pc = "produced"
    /\ agg_file' = to_csv(agg_written)
    /\ agg_pc' = "saved"
    /\ UNCHANGED <<agg_producer, agg_written, agg_scale, simi_mat, total_emd>>
    /\ UNCHANGED outside_agg

\* lines 318-324 (and 404-406 of nn_bulk_modulus_matrix_step)
LoadAndSymmetrise ==
    /\ agg_pc = "saved"
    /\ total_emd' = Zeros(Len(agg_file), Len(agg_file))
    /\ simi_mat' = Symmetrise(read_csv(agg_file))
    /\ agg_pc' = "symmetrised"
    /\ UNCHANGED <<agg_producer, agg_written, agg_file, agg_scale>>
    /\ UNCHANGED outside_agg

\* lines 325-328
AddToTotal ==
    /\ agg_pc = "symmetrised"
    /\ total_emd' = IF agg_scale THEN MatAdd(total_emd, MatTimes(simi_mat, 10))
                    ELSE MatAdd(total_emd, simi_mat)
    /\ agg_pc' = "added"
    /\ UNCHANGED <<agg_producer, agg_written, agg_file, agg_scale, simi_mat>>
    /\ UNCHANGED outside_agg

NextAgg ==
    \/ SaveMatrix
    \/ LoadAndSymmetrise
    \/ AddToTotal

SpecAgg == InitAgg /\ [][NextAgg]_vars

(***************************************************************************)
(* C25: the aggregators nn_bulk_modulus_matrix_add and                     *)
(* nn_bulk_modulus_matrix_step symmetrise each loaded matrix as            *)
(* fillna(0) + transpose.fillna(0); for every i # j the value they then    *)
(* use equals the distance D[i][j] written by the producer, both when the  *)
(* stored matrix has a missing-value lower triangle (1-D                   *)
(* rdf_similarity_matrix, composition_similarity_matrix) and when it is    *)
(* fully mirrored (super_fast_EMD_matrix, 2-D rdf_similarity_matrix).      *)
(***************************************************************************)
\* the distance the producer computed for the pair {a, b}
Distance(a, b) == IF a <= b THEN agg_written[a][b] ELSE agg_written[b][a]

\* every distance of the producer is a number
AllDistancesFinite ==
    \A a \in 1..Len(agg_written) : \A b \in a..Len(agg_written) :
        IsFinite(agg_written[a][b])

C25_SymmetrisedIsDistance ==
    (agg_pc \in {"symmetrised", "added"} /\ AllDistancesFinite) =>
        \A a \in 1..Len(simi_mat) : \A b \in 1..Len(simi_mat) :
            a # b => simi_mat[a][b] = Distance(a, b)

(***************************************************************************)
(* C26: for every sub-range indice = [s, e] with 0 <= s < e <= len(data),  *)
(* composition_similarity_matrix returns a table with exactly one row per  *)
(* structure s..e-1, in which entry (i, j) is the transport EMD of         *)
(* structures i and j when i <= j and the missing-value sentinel (NaN)     *)
(* when i > j; with indice omitted it does so for all rows.                *)
(***************************************************************************)
\* the first and the last row asked for
FirstRow == IndiceOrAll(comp_indice, comp_data)[1]

LastRow == IndiceOrAll(comp_indice, comp_data)[2]

C26_SubRangeTable ==
    (comp_pc = "returned") =>
        /\ compo_emd.kind = "value"
        /\ compo_emd.v.index = [k \in 1..(LastRow - FirstRow) |-> comp_data[FirstRow + k].id]
        /\ \A k \in 1..(LastRow - FirstRow) : \A j \in 1..Len(comp_data) :
              compo_emd.v.v[k][j] =
                  IF FirstRow + k <= j
                  THEN emd_solver(comp_data[FirstRow + k].vec, comp_data[j].vec, dist_matrix.v)
                  ELSE NaN

(***************************************************************************)
(* find_same_rdf.  The dict rdfs is a sequence of entries [id, rdf] in     *)
(* insertion order; an RDF is a 1-D array of floats.                       *)
(***************************************************************************)
\* np.array_equal(a1, a2): the same shape and a1 == a2 in every position
array_equal(a1, a2) ==
    /\ Len(a1) = Len(a2)
    /\ \A k \in 1..Len(a1) : FEq(a1[k], a2[k])

\* lines 181-184: the task ids whose RDF equals rdf_1, in the order of rdfs
RECURSIVE SameRdfList(_, _)
SameRdfList(rdf_1, entries) ==
    IF entries = <<>> THEN <<>>
    ELSE IF array_equal(rdf_1, Head(entries).rdf)
         THEN <<Head(entries).id>> \o SameRdfList(rdf_1, Tail(entries))
         ELSE SameRdfList(rdf_1, Tail(entries))

\* the ids of a list, as a set
Ids(list) == {list[k] : k \in 1..Len(list)}

\* lines 187-188: rdfs.pop(mp_id) for every mp_id of the list
RECURSIVE PopAll(_, _)
PopAll(entries, ids) ==
    IF entries = <<>> THEN <<>>
    ELSE IF Head(entries).id \in ids THEN PopAll(Tail(entries), ids)
         ELSE <<Head(entries)>> \o PopAll(Tail(entries), ids)

\* the RDFs of the data set: arrays of one or two floats
FloatArrays == UNION {[1..nb -> {F(0), F(1), NaN}] : nb \in 1..2}

InitSame ==
    /\ MatrixIdle
    /\ PairIdle
    /\ SimIdle
    /\ CompIdle
    /\ RdfIdle
    /\ RowIdle
    /\ OldIdle
    /\ AggIdle
    /\ CallIdle
    /\ \E n \in 1..MaxN : \E arrays \in [1..n -> FloatArrays] :
          same_rdf = [k \in 1..n |-> [id |-> "mp-" \o ToString(k), rdf |-> arrays[k]]]
    /\ same_rdfs = <<>>
    /\ match_list = <<>>
    /\ same_passes = 0
    /\ same_pc = "start"

\* lines 174-178: rdfs[d["task_id"]] = all_rdf[i] for every d; match_list = []
FillDict ==
    /\ same_pc = "start"
    /\ same_rdfs' = same_rdf
    /\ match_list' = <<>>
    /\ same_pc' = "loop"
    /\ UNCHANGED <<same_rdf, same_passes>>
    /\ UNCHANGED outside_same

\* lines 179-188: one pass of the while loop
Pass ==
    /\ same_pc = "loop"
    /\ Len(same_rdfs) # 0
    /\ same_passes < MaxPasses
    /\ LET rdf_1 == same_rdfs[1].rdf
           same_rdf_list == SameRdfList(rdf_1, same_rdfs)
       IN  /\ match_list' = IF Len(same_rdf_list) > 1
                            THEN Append(match_list, same_rdf_list)
                            ELSE match_list
           /\ same_rdfs' = PopAll(same_rdfs, Ids(same_rdf_list))
    /\ same_passes' = same_passes + 1
    /\ UNCHANGED <<same_rdf, same_pc>>
    /\ UNCHANGED outside_same

\* lines 179 and 189: the loop ends when rdfs is empty; return match_list
ReturnMatches ==
    /\ same_pc = "loop"
    /\ Len(same_rdfs) = 0
    /\ same_pc' = "returned"
    /\ UNCHANGED <<same_rdf, same_rdfs, match_list, same_passes>>
    /\ UNCHANGED outside_same

NextSame ==
    \/ FillDict
    \/ Pass
    \/ ReturnMatches

SpecSame == InitSame /\ [][NextSame]_vars

(***************************************************************************)
(* C27: find_same_rdf terminates for every finite input: each pass of its  *)
(* while loop removes at least the first remaining RDF from the working    *)
(* set (because it is found equal to itself), so the set strictly shrinks; *)
(* on termination the returned groups are pairwise disjoint, each has at   *)
(* least 2 IDs, and two IDs are in the same group exactly when their RDFs  *)
(* are equal.                                                              *)
(***************************************************************************)
C27_ShrinksAndGroups ==
    /\ same_pc = "loop" => Len(same_rdfs) <= Len(same_rdf) - same_passes
    /\ same_pc = "returned" =>
          /\ \A g \in 1..Len(match_list) : Len(match_list[g]) >= 2
          /\ \A g, h \in 1..Len(match_list) :
                g # h => Ids(match_list[g]) \cap Ids(match_list[h]) = {}
          /\ \A a, b \in 1..Len(same_rdf) :
                a # b =>
                    ((\E g \in 1..Len(match_list) :
                         {same_rdf[a].id, same_rdf[b].id} \subseteq Ids(match_list[g]))
                     <=> array_equal(same_rdf[a].rdf, same_rdf[b].rdf))

(***************************************************************************)
(* One call of rdf_emd_similarity on two arrays of one shape: 1-D, 2-D     *)
(* (each of the two dense or sparse) or 3-D, with any method string.       *)
(***************************************************************************)
\* a 3-D array of one 2-D histogram
Dense3D(g) == [rep |-> "ndarray", shape |-> <<1>> \o Shape(g), v |-> <<g>>]

\* a 2-D histogram as a NumPy array or as a SciPy sparse matrix
Form(g, rep) == IF rep = "ndarray" THEN Dense(g) ELSE Coo(g)

Representations == {"ndarray", "coo_matrix"}

\* "emd" is the method string of rdf_similarity_matrix
MethodStrings == {"orig", "fast", "emd"}

InitCall ==
    /\ MatrixIdle
    /\ PairIdle
    /\ SimIdle
    /\ CompIdle
    /\ RdfIdle
    /\ RowIdle
    /\ OldIdle
    /\ AggIdle
    /\ SameIdle
    /\ \/ \E ha, hb \in Histograms :
             /\ Len(ha) = Len(hb)
             /\ call_a = Dense1D(ha)
             /\ call_b = Dense1D(hb)
       \/ \E sh \in PairShapes : \E ga, gb \in PairGrids(sh[1], sh[2]) :
             \/ \E ra, rb \in Representations :
                   /\ call_a = Form(Fractions(ga), ra)
                   /\ call_b = Form(Fractions(gb), rb)
             \/ /\ call_a = Dense3D(Fractions(ga))
                /\ call_b = Dense3D(Fractions(gb))
    /\ call_method \in MethodStrings
    /\ call_out = NotCalled

CallSimilarity ==
    /\ call_out = NotCalled
    /\ call_out' = rdf_emd_similarity(call_a, call_b, RdfMaxDistance, call_method)
    /\ UNCHANGED <<call_a, call_b, call_method>>
    /\ UNCHANGED outside_call

NextCall == CallSimilarity

SpecCall == InitCall /\ [][NextCall]_vars

(***************************************************************************)
(* C28: every call of rdf_emd_similarity on two inputs of equal shape      *)
(* either returns a numeric distance or raises an error: for no            *)
(* combination of dimensionality (1-D, 2-D, higher), method string         *)
(* ('orig', 'fast' or any other) and input representation (dense, sparse,  *)
(* or one of each) does it return without a value.                         *)
(***************************************************************************)
C28_ValueOrError ==
    (call_out # NotCalled) =>
        /\ call_a.shape = call_b.shape
        /\ call_out # ReturnedNone
=============================================================================
